---------------------------- MODULE Spec2Model ----------------------------
(***************************************************************************)
(* A model of the RIBCL response parser of the iLO4 Ansible modules        *)
(* (plugins/module_utils/ribcl_parser.py): the node model, the document    *)
(* splitter (parse_response), the tree builder (_parse_xml, _parse_node)   *)
(* and the path queries (find, findall); and of the runs of the modules    *)
(* ilo_hostname, ilo_power_settings, ilo_power and ilo_virtual_media       *)
(* (plugins/modules), one action for each command a run executes.          *)
(*                                                                         *)
(* Text is a sequence of one-character strings.  Positions are 0-based, as *)
(* in the Python source: the character at position i of s is s[i+1].       *)
(***************************************************************************)
EXTENDS Integers, Sequences, FiniteSets, TLC

(***************************************************************************)
(* Python string operations used by the parser.                            *)
(***************************************************************************)

\* str.isspace() on one character; the model's alphabet has two whitespace
\* characters, the blank and the line break.
IsSpace(c) == c \in {" ", "\n"}

\* \w of the attribute regex: a letter, a digit or an underscore.  Of the
\* model's alphabet every character but the markup ones is a word character.
IsWord(c) == c \notin {"<", ">", "/", "?", "=", "\"", " ", "\n", "."}

Min(S) == CHOOSE x \in S : \A y \in S : x <= y

\* s[a:b]
Slice(s, a, b) ==
    LET lo == IF a < 0 THEN 0 ELSE a
        hi == IF b > Len(s) THEN Len(s) ELSE b
    IN  IF lo >= hi THEN << >> ELSE SubSeq(s, lo + 1, hi)

\* s[a:]
SliceFrom(s, a) == Slice(s, a, Len(s))

\* s.startswith(p)
StartsWith(s, p) == Len(p) <= Len(s) /\ SubSeq(s, 1, Len(p)) = p

\* s.endswith(p)
EndsWith(s, p) == Len(p) <= Len(s) /\ SubSeq(s, Len(s) - Len(p) + 1, Len(s)) = p

\* s.find(sub, start): the least position >= start where sub occurs, or -1
StrFind(s, sub, start) ==
    LET hits == { i \in start .. (Len(s) - Len(sub)) :
                    SubSeq(s, i + 1, i + Len(sub)) = sub }
    IN  IF hits = {} THEN -1 ELSE Min(hits)

\* the first position >= p that holds no whitespace (Len(s) when there is none)
SkipSpace(s, p) ==
    LET rest == { i \in p .. (Len(s) - 1) : ~IsSpace(s[i + 1]) }
    IN  IF rest = {} THEN (IF p > Len(s) THEN p ELSE Len(s)) ELSE Min(rest)

\* s.strip()
Strip(s) ==
    LET keep == { i \in 1 .. Len(s) : ~IsSpace(s[i]) }
    IN  IF keep = {} THEN << >>
        ELSE SubSeq(s, Min(keep), CHOOSE j \in keep : \A k \in keep : k <= j)

\* s.rstrip('/')
RStripSlash(s) ==
    LET keep == { i \in 1 .. Len(s) : s[i] # "/" }
    IN  IF keep = {} THEN << >>
        ELSE SubSeq(s, 1, CHOOSE j \in keep : \A k \in keep : k <= j)

\* s.splitlines(): the pieces between line breaks; a final line break opens
\* no further (empty) line.
RECURSIVE SplitLines(_)
SplitLines(s) ==
    IF s = << >> THEN << >>
    ELSE LET nl == StrFind(s, <<"\n">>, 0)
         IN  IF nl = -1 THEN << s >>
             ELSE << Slice(s, 0, nl) >> \o SplitLines(SliceFrom(s, nl + 1))

\* '\n'.join(ls)
RECURSIVE JoinLines(_)
JoinLines(ls) ==
    IF ls = << >> THEN << >>
    ELSE IF Len(ls) = 1 THEN ls[1]
    ELSE ls[1] \o <<"\n">> \o JoinLines(Tail(ls))

(***************************************************************************)
(* The node model.                                                         *)
(***************************************************************************)

\* Python's None
None == [none |-> TRUE]

\* a variant of the constructor that starts the text as the empty string
RibclNode_with_text(tag) ==
    [tag |-> tag, attributes |-> << >>, children |-> << >>, text |-> << >>]

\* RibclNode(tag): no attributes, no children, no text
RibclNode(tag) ==
    [tag |-> tag, attributes |-> << >>, children |-> << >>, text |-> None]

\* node.children.append(child) (add_child)
add_child(node, child) ==
    [node EXCEPT !.children = Append(node.children, child)]

\* a map that keeps the value a name already has
set_attribute_keep(node, name, value) ==
    [node EXCEPT !.attributes = node.attributes @@ (name :> value)]

\* node.attributes[name] = value
set_attribute(node, name, value) ==
    [node EXCEPT !.attributes = (name :> value) @@ node.attributes]

\* node.to_dict(): tag and attributes, and the children when there are any
RECURSIVE to_dict(_)
to_dict(node) ==
    IF node.children # << >>
    THEN [tag |-> node.tag, attributes |-> node.attributes,
          children |-> [i \in 1 .. Len(node.children) |-> to_dict(node.children[i])]]
    ELSE [tag |-> node.tag, attributes |-> node.attributes]

(***************************************************************************)
(* The path queries.  A node of a tree is named by its position: the       *)
(* sequence of child indexes that leads to it from the node the query is   *)
(* invoked on (the empty sequence names that node itself).  A query        *)
(* returns references [at |-> position] to nodes of the tree.              *)
(***************************************************************************)

NodeRef(p) == [at |-> p]

\* the node at position p of tree
RECURSIVE node_at(_, _)
node_at(tree, p) ==
    IF p = << >> THEN tree ELSE node_at(tree.children[p[1]], Tail(p))

\* path.strip('/')
StripSlashes(s) ==
    LET keep == { i \in 1 .. Len(s) : s[i] # "/" }
    IN  IF keep = {} THEN << >>
        ELSE SubSeq(s, Min(keep), CHOOSE j \in keep : \A k \in keep : k <= j)

\* s.split('/')
RECURSIVE SplitSlash(_)
SplitSlash(s) ==
    LET i == StrFind(s, <<"/">>, 0)
    IN  IF i = -1 THEN << s >>
        ELSE << Slice(s, 0, i) >> \o SplitSlash(SliceFrom(s, i + 1))

\* a variant of the parts that leaves out the components '.' and ''
path_parts_dotless(path) ==
    SelectSeq(SplitSlash(StripSlashes(path)),
              LAMBDA part : part # <<".">> /\ part # << >>)

\* the parts of a chain path
path_parts(path) == SplitSlash(StripSlashes(path))

\* a variant of the inner for loop of find without its break: the loop runs
\* on and the last matching child stays selected
matching_child_last(children, part) ==
    LET hits == { i \in 1 .. Len(children) : children[i].tag = part }
    IN  IF hits = {} THEN 0 ELSE CHOOSE i \in hits : \A j \in hits : j <= i

\* the inner for loop of find: the index of the child the loop breaks at,
\* 0 when it ends without a match
matching_child(children, part) ==
    LET hits == { i \in 1 .. Len(children) : children[i].tag = part }
    IN  IF hits = {} THEN 0 ELSE Min(hits)

RECURSIVE find_parts(_, _, _)

\* a variant of the outer for loop of find that raises where the loop
\* returns None
find_parts_strict(tree, current, parts) ==
    IF parts = << >> THEN NodeRef(current)
    ELSE LET i == matching_child(node_at(tree, current).children, parts[1])
         IN  IF i = 0 THEN [exc |-> "LookupError"]
             ELSE find_parts(tree, Append(current, i), Tail(parts))

\* the outer for loop of find, at the node at position current
find_parts(tree, current, parts) ==
    IF parts = << >> THEN NodeRef(current)
    ELSE LET i == matching_child(node_at(tree, current).children, parts[1])
         IN  IF i = 0 THEN None
             ELSE find_parts(tree, Append(current, i), Tail(parts))

\* node.find(path)
find(tree, path) == find_parts(tree, << >>, path_parts(path))

\* _find_recursive(node) of findall, for the node at position p, and its
\* for loop from child i on: the references appended to results, in order
RECURSIVE find_recursive(_, _, _), find_recursive_children(_, _, _, _)
find_recursive(tree, p, tag) ==
    (IF node_at(tree, p).tag = tag THEN << NodeRef(p) >> ELSE << >>)
    \o find_recursive_children(tree, p, tag, 1)
find_recursive_children(tree, p, tag, i) ==
    IF i > Len(node_at(tree, p).children) THEN << >>
    ELSE find_recursive(tree, Append(p, i), tag)
         \o find_recursive_children(tree, p, tag, i + 1)

\* _find_path(node, parts, depth) of findall, for the node at position p,
\* and its for loop from child i on
RECURSIVE find_path(_, _, _, _), find_path_children(_, _, _, _, _)
RECURSIVE find_path_children_first(_, _, _, _, _)

\* a variant of the for loop of _find_path that stops at the first matching
\* child instead of descending into every one
find_path_children_first(tree, p, parts, depth, i) ==
    IF i > Len(node_at(tree, p).children) THEN << >>
    ELSE IF node_at(tree, p).children[i].tag = parts[depth + 1]
    THEN find_path(tree, Append(p, i), parts, depth + 1)
    ELSE find_path_children_first(tree, p, parts, depth, i + 1)

find_path(tree, p, parts, depth) ==
    IF depth = Len(parts) THEN << NodeRef(p) >>
    ELSE find_path_children(tree, p, parts, depth, 1)

find_path_children(tree, p, parts, depth, i) ==
    IF i > Len(node_at(tree, p).children) THEN << >>
    ELSE (IF node_at(tree, p).children[i].tag = parts[depth + 1]
          THEN find_path(tree, Append(p, i), parts, depth + 1)
          ELSE << >>)
         \o find_path_children(tree, p, parts, depth, i + 1)

\* node.findall(path)
findall(tree, path) ==
    IF StartsWith(path, <<".", "/", "/">>)
    THEN find_recursive(tree, << >>, SliceFrom(path, 3))
    ELSE find_path(tree, << >>, path_parts(path), 0)

(***************************************************************************)
(* Tags and attributes: the text between '<' and '>'.                      *)
(***************************************************************************)

\* the end (exclusive) of the run of word characters that starts at i
RECURSIVE WordEnd(_, _)
WordEnd(s, i) ==
    IF i < Len(s) /\ IsWord(s[i + 1]) THEN WordEnd(s, i + 1) ELSE i

\* re.findall(r'(\w+)="([^"]*)"', s), scanning from position i: the
\* (name, value) pairs of the non-overlapping matches, left to right
RECURSIVE attr_findall(_, _)
attr_findall(s, i) ==
    IF i >= Len(s) THEN << >>
    ELSE IF ~IsWord(s[i + 1]) THEN attr_findall(s, i + 1)
    ELSE LET j == WordEnd(s, i)
             q == IF Slice(s, j, j + 2) = <<"=", "\"">>
                  THEN StrFind(s, <<"\"">>, j + 2) ELSE -1
         IN  IF q = -1 THEN attr_findall(s, i + 1)
             ELSE << << Slice(s, i, j), Slice(s, j + 2, q) >> >>
                  \o attr_findall(s, q + 1)

\* for name, value in parts: node.attributes[name] = value
RECURSIVE assign_attributes(_, _)
assign_attributes(node, parts) ==
    IF parts = << >> THEN node
    ELSE assign_attributes(set_attribute(node, parts[1][1], parts[1][2]),
                           Tail(parts))

\* the tag name of a tag text: up to the first blank, or the text without
\* its trailing slashes
tag_name_of(tag_text) ==
    LET sp == StrFind(tag_text, <<" ">>, 0)
    IN  IF sp # -1 THEN Slice(tag_text, 0, sp) ELSE RStripSlash(tag_text)

\* the attribute text of a tag text: what follows the first blank
attr_text_of(tag_text) ==
    LET sp == StrFind(tag_text, <<" ">>, 0)
    IN  IF sp # -1 THEN SliceFrom(tag_text, sp + 1) ELSE << >>

\* the node created for a tag text, with its attributes
open_node(tag_text) ==
    assign_attributes(RibclNode(tag_name_of(tag_text)),
                      attr_findall(attr_text_of(tag_text), 0))

(***************************************************************************)
(* _parse_node: the recursive parse of a child element.  The result is     *)
(* [exc, node]: exc names the exception raised ("" when none), node is the *)
(* returned node or None.                                                  *)
(***************************************************************************)

\* a variant of the closing test that asks for the closing marker of the
\* tag itself: the name, then '>'
closes_block_exactly(xml_text, p, tag_name) ==
    StartsWith(SliceFrom(xml_text, p + 2), tag_name \o <<">">>)

\* xml_text[p+2:].startswith(tag_name), for a closing marker at p: the
\* marker closes the block opened as tag_name
closes_block(xml_text, p, tag_name) ==
    StartsWith(SliceFrom(xml_text, p + 2), tag_name)

Returned(node) == [exc |-> "", node |-> node]
Raised(e) == [exc |-> e, node |-> None]

RECURSIVE parse_node(_), parse_node_children(_, _, _, _)

\* the while loop of _parse_node: the scan for the children of node, from pos
parse_node_children(xml_text, tag_name, node, pos) ==
    IF pos >= Len(xml_text) THEN Returned(node)
    ELSE IF xml_text[pos + 1] # "<"
    THEN parse_node_children(xml_text, tag_name, node, pos + 1)
    ELSE IF pos + 1 >= Len(xml_text) THEN Raised("IndexError")
    ELSE IF xml_text[pos + 2] = "/"
    THEN IF closes_block(xml_text, pos, tag_name)
         THEN Returned(node)
         ELSE parse_node_children(xml_text, tag_name, node, pos + 1)
    ELSE LET child == parse_node(SliceFrom(xml_text, pos))
         IN  IF child.exc # "" THEN child
             ELSE IF child.node # None
             THEN parse_node_children(xml_text, tag_name,
                                      add_child(node, child.node),
                                      StrFind(xml_text, <<">">>, pos) + 1)
             ELSE parse_node_children(xml_text, tag_name, node, pos + 1)

parse_node(xml_text) ==
    LET pos == SkipSpace(xml_text, 0)
    IN  IF pos >= Len(xml_text) THEN Returned(None)
        ELSE IF xml_text[pos + 1] # "<" THEN Returned(None)
        ELSE LET tag_end == StrFind(xml_text, <<">">>, pos)
             IN  IF tag_end = -1 THEN Returned(None)
                 ELSE LET tag_text == Slice(xml_text, pos + 1, tag_end)
                          node == open_node(tag_text)
                      IN  IF EndsWith(tag_text, <<"/">>) THEN Returned(node)
                          ELSE parse_node_children(xml_text, node.tag, node,
                                                   tag_end + 1)

(***************************************************************************)
(* _parse_xml: the tree builder of one document.                           *)
(***************************************************************************)

\* the text and the cursor the scan starts with: the text stripped, and,
\* when it starts with a declaration, cut after the declaration's '?>' and
\* stripped again, the cursor staying where the declaration ended
parse_xml_start(text) ==
    LET stripped == Strip(text)
    IN  IF StartsWith(stripped, <<"<", "?", "x", "m", "l">>)
        THEN LET p == StrFind(stripped, <<"?", ">">>, 0) + 2
             IN  [xml_text |-> Strip(SliceFrom(stripped, p)), pos |-> p]
        ELSE [xml_text |-> stripped, pos |-> 0]

\* the inner while loop of _parse_xml: the scan for the children of a
\* top-level block, from child_pos; pos is the cursor the outer loop resumes
\* at.  The result is [exc, node, pos].
RECURSIVE parse_xml_children(_, _, _, _, _)
parse_xml_children(xml_text, tag_name, node, pos, child_pos) ==
    IF child_pos >= Len(xml_text) THEN [exc |-> "", node |-> node, pos |-> pos]
    ELSE IF xml_text[child_pos + 1] # "<"
    THEN parse_xml_children(xml_text, tag_name, node, pos, child_pos + 1)
    ELSE IF child_pos + 1 >= Len(xml_text)
    THEN [exc |-> "IndexError", node |-> node, pos |-> pos]
    ELSE IF xml_text[child_pos + 2] = "/"
    THEN IF closes_block(xml_text, child_pos, tag_name)
         THEN [exc |-> "", node |-> node,
               pos |-> StrFind(xml_text, <<">">>, child_pos) + 1]
         ELSE parse_xml_children(xml_text, tag_name, node, pos, child_pos + 1)
    ELSE LET child == parse_node(SliceFrom(xml_text, child_pos))
         IN  IF child.exc # ""
             THEN [exc |-> child.exc, node |-> node, pos |-> pos]
             ELSE IF child.node # None
             THEN parse_xml_children(xml_text, tag_name,
                                     add_child(node, child.node), pos,
                                     StrFind(xml_text, <<">">>, child_pos) + 1)
             ELSE parse_xml_children(xml_text, tag_name, node, pos, child_pos + 1)

\* one iteration of the outer while loop of _parse_xml, entered with
\* pos < len(xml_text).  The result is [exc, pos, root].
parse_xml_iteration(xml_text, pos0, root) ==
    LET pos == SkipSpace(xml_text, pos0)
    IN  IF pos >= Len(xml_text) THEN [exc |-> "", pos |-> pos, root |-> root]
        ELSE IF xml_text[pos + 1] # "<"
        THEN [exc |-> "", pos |-> pos + 1, root |-> root]
        ELSE IF pos + 1 >= Len(xml_text)
        THEN [exc |-> "IndexError", pos |-> pos, root |-> root]
        ELSE IF xml_text[pos + 2] = "/"
        THEN [exc |-> "", pos |-> StrFind(xml_text, <<">">>, pos) + 1,
              root |-> root]
        ELSE LET tag_end == StrFind(xml_text, <<">">>, pos)
             IN  IF tag_end = -1
                 THEN [exc |-> "ValueError", pos |-> pos, root |-> root]
                 ELSE LET tag_text == Slice(xml_text, pos + 1, tag_end)
                          node == open_node(tag_text)
                      IN  IF EndsWith(tag_text, <<"/">>)
                          THEN [exc |-> "", pos |-> tag_end + 1,
                                root |-> IF root = None THEN node ELSE root]
                          ELSE LET r == parse_xml_children(xml_text, node.tag, node,
                                                           tag_end + 1, tag_end + 1)
                               IN  [exc |-> r.exc, pos |-> r.pos,
                                    root |-> IF r.exc = "" /\ root = None
                                             THEN r.node ELSE root]

(***************************************************************************)
(* The inputs of the model.  A call is [op, text, docs]: the operation     *)
(* invoked, its argument, and the documents the argument was assembled     *)
(* from (each [decl, body, tree]; tree is the element tree a well-formed   *)
(* body was written from, None for a damaged body).                        *)
(***************************************************************************)

MaxNodes == 3
MaxPieces == 3
MaxResponsePieces == 2
MaxDocs == 3
MaxQueryNodes == 4
MaxPathParts == 3
MaxTailPieces == 2
MaxAttrPairs == 2

Decl == <<"<", "?", "x", "m", "l", "?", ">">>

TagNames == { <<"A">>, <<"B">> }

AttrSets == { << >>, (<<"k">> :> <<"v">>) }

\* the ordered forests of n nodes in all, labelled with the given tag names
\* and attribute sets, and the trees of at most n nodes
RECURSIVE ForestsOf(_, _, _)
ForestsOf(n, tags, attrsets) ==
    IF n = 0 THEN { << >> }
    ELSE UNION { UNION { { << [tag |-> t, attributes |-> a, children |-> cs,
                               text |-> None] >> \o f :
                             t \in tags, a \in attrsets,
                             cs \in ForestsOf(k - 1, tags, attrsets) } :
                         f \in ForestsOf(n - k, tags, attrsets) } :
                 k \in 1 .. n }

TreesOf(n, tags, attrsets) ==
    UNION { { f[1] : f \in { g \in ForestsOf(m, tags, attrsets) : Len(g) = 1 } } :
            m \in 1 .. n }

Trees == TreesOf(MaxNodes, TagNames, AttrSets)

\* the text of name="value" for each attribute, each preceded by a blank
RenderAttrs(attrs) ==
    IF attrs = << >> THEN << >>
    ELSE LET n == CHOOSE x \in DOMAIN attrs : TRUE
         IN  <<" ">> \o n \o <<"=", "\"">> \o attrs[n] \o <<"\"">>

\* the well-formed text of an element tree: a self-closing tag for a leaf,
\* an opening tag, the children and the closing tag for a block
RECURSIVE Render(_), RenderAll(_)
Render(t) ==
    IF t.children = << >>
    THEN <<"<">> \o t.tag \o RenderAttrs(t.attributes) \o <<"/", ">">>
    ELSE <<"<">> \o t.tag \o RenderAttrs(t.attributes) \o <<">">>
         \o RenderAll(t.children)
         \o <<"<", "/">> \o t.tag \o <<">">>
RenderAll(ts) ==
    IF ts = << >> THEN << >> ELSE Render(ts[1]) \o RenderAll(Tail(ts))

\* fragments of markup, whole and damaged
Pieces ==
    { Decl,
      <<"<", "A", ">">>,
      <<"<", "/", "A", ">">>,
      <<"<", "B", "/", ">">>,
      <<"<", "B">>,
      <<"<", "/", "A">>,
      <<"<", "/", "A", "B", ">">>,
      <<"<", ">">>,
      <<"x">>,
      <<" ">>,
      <<"<">>,
      <<">">> }

RECURSIVE PieceTexts(_)
PieceTexts(n) ==
    IF n = 0 THEN { << >> }
    ELSE LET shorter == PieceTexts(n - 1)
         IN  shorter \cup { p \o s : p \in Pieces, s \in shorter }

\* the documents of the streams: the two bodies of the RIBCL example,
\* <RIBCL><R S="1"/></RIBCL> and the same with S="2"; that body cut inside
\* the opening tag of R; cut inside the closing tag of RIBCL; cut there and
\* followed by the start of a further tag; and no body at all
RibclTree(s) ==
    add_child(RibclNode(<<"R", "I", "B", "C", "L">>),
              set_attribute(RibclNode(<<"R">>), <<"S">>, s))

CutBody(n) == Slice(Render(RibclTree(<<"1">>)), 0, n)

StreamDocs ==
    { [decl |-> Decl, body |-> Render(RibclTree(<<"1">>)),
       tree |-> RibclTree(<<"1">>)],
      [decl |-> Decl, body |-> Render(RibclTree(<<"2">>)),
       tree |-> RibclTree(<<"2">>)],
      [decl |-> Decl, body |-> CutBody(9), tree |-> None],
      [decl |-> Decl, body |-> CutBody(24), tree |-> None],
      [decl |-> Decl, body |-> CutBody(24) \o <<"<", "R">>, tree |-> None],
      [decl |-> Decl, body |-> << >>, tree |-> None] }

RECURSIVE DocSeqs(_)
DocSeqs(n) ==
    IF n = 0 THEN { << >> }
    ELSE LET shorter == DocSeqs(n - 1)
         IN  shorter \cup { << d >> \o s : d \in StreamDocs, s \in shorter }

\* what precedes the first declaration line: nothing, a blank line, or a
\* line of markup
Preambles == { << >>, <<" ", "\n">>, Render(RibclTree(<<"1">>)) \o <<"\n">> }

\* a document on the wire: the declaration line, then the body line
DocText(d) == d.decl \o <<"\n">> \o d.body \o <<"\n">>

RECURSIVE StreamText(_)
StreamText(ds) ==
    IF ds = << >> THEN << >> ELSE DocText(ds[1]) \o StreamText(Tail(ds))

\* a document whose body opens the block RIBCL and goes on with fragments
TailDoc(tail) ==
    Decl \o <<"\n">> \o <<"<", "R", "I", "B", "C", "L", ">">> \o tail

\* attribute pairs (name, value): the values are a word, the empty string,
\* a status code, and a string with '>' in it
AttrPairs ==
    { << <<"k">>, v >> : v \in { <<"v">>, << >>,
                                 <<"0", "x", "0", "0", "0", "0">>,
                                 <<"a", ">", "b">> } }
    \cup { << <<"S">>, <<"v">> >> }

RECURSIVE AttrPairSeqs(_)
AttrPairSeqs(n) ==
    IF n = 0 THEN { << >> }
    ELSE LET shorter == AttrPairSeqs(n - 1)
         IN  shorter \cup { << pr >> \o ps : pr \in AttrPairs, ps \in shorter }

\* the attribute text of the pairs: name="value", one after the other, sep
\* between them
RECURSIVE AttrText(_, _)
AttrText(pairs, sep) ==
    IF pairs = << >> THEN << >>
    ELSE pairs[1][1] \o <<"=", "\"">> \o pairs[1][2] \o <<"\"">>
         \o (IF Len(pairs) = 1 THEN << >> ELSE sep \o AttrText(Tail(pairs), sep))

\* the self-closing tag A with the pairs for attributes
AttrTag(pairs, sep) ==
    <<"<", "A", " ">> \o AttrText(pairs, sep) \o <<"/", ">">>

\* the calls: the tree builder on a well-formed document, with and without
\* a declaration, on fragments, and on a tag with attribute pairs separated
\* by a blank or a line break; the splitter on a stream of documents, on
\* one well-formed document, on fragments, and on a document that ends in
\* fragments
Calls ==
    { [op |-> "parse_xml", text |-> d \o Render(t),
       docs |-> << [decl |-> d, body |-> Render(t), tree |-> t] >>] :
         d \in { << >>, Decl }, t \in Trees }
    \cup { [op |-> "parse_xml", text |-> s, docs |-> << >>] :
             s \in PieceTexts(MaxPieces) }
    \cup { [op |-> "parse_response", text |-> pre \o StreamText(ds), docs |-> ds] :
             pre \in Preambles, ds \in DocSeqs(MaxDocs) }
    \cup { [op |-> "parse_response",
            text |-> DocText([decl |-> Decl, body |-> Render(t), tree |-> t]),
            docs |-> << [decl |-> Decl, body |-> Render(t), tree |-> t] >>] :
             t \in Trees }
    \cup { [op |-> "parse_response", text |-> s, docs |-> << >>] :
             s \in PieceTexts(MaxResponsePieces) }
    \cup { [op |-> "parse_response", text |-> TailDoc(s), docs |-> << >>] :
             s \in PieceTexts(MaxTailPieces) }
    \cup { [op |-> "parse_xml", text |-> AttrTag(ps, sep),
            docs |-> << [decl |-> << >>, body |-> AttrTag(ps, sep),
                         tree |-> None, pairs |-> ps] >>] :
             ps \in AttrPairSeqs(MaxAttrPairs), sep \in { <<" ">>, <<"\n">> } }

(***************************************************************************)
(* The state: the call, the document splitter (parse_response) and the     *)
(* frame of the tree builder (_parse_xml).                                 *)
(***************************************************************************)
VARIABLES
    op,           \* the operation invoked: "parse_response" or "parse_xml"
    input,        \* its argument (response_text, or xml_text as passed)
    sent,         \* the documents the argument was assembled from
    pc,           \* "idle", "split", "build", "done" or "raised"
    lines,        \* splitter: the lines not yet taken by the for loop
    current_doc,  \* splitter: the lines accumulated for the current document
    in_doc,       \* splitter: a declaration line has been seen
    documents,    \* splitter: the roots recorded so far
    calls,        \* the texts handed to the tree builder so far, in order
    xml_text,     \* builder: the text under the cursor
    pos,          \* builder: the cursor
    root,         \* builder: the root established so far, or None
    ret,          \* builder: the place it returns to: "loop", "end", "caller"
    exc,          \* the exception that ended the call ("" when none)
    tree,         \* query: the node find or findall is invoked on
    path,         \* query: the path string
    query,        \* query: the last query made: "none", "find", "findall"
    result,       \* query: what it returned
    frames,       \* concurrent calls: the frame of each thread's parse_response
    heap,         \* concurrent calls: the node objects created so far
    params,       \* module run: the parameters of the Ansible task
    device,       \* module run: the state of the management controller
    mpc,          \* module run: the place the run is at ("none": no run)
    locals,       \* module run: the local variables of the run
    issued,       \* module run: the commands executed so far, in order
    outcome       \* module run: what the run ended with, None while it runs

vars == << op, input, sent, pc, lines, current_doc, in_doc, documents, calls,
           xml_text, pos, root, ret, exc, tree, path, query, result,
           frames, heap, params, device, mpc, locals, issued, outcome >>

splitter == << lines, current_doc, in_doc, documents >>
builder == << xml_text, pos, root, ret >>
parser == << op, input, sent, pc, splitter, calls, builder, exc >>
queries == << tree, path, query, result >>
concurrent == << frames, heap >>
modulerun == << params, device, mpc, locals, issued, outcome >>

\* no module run is part of the behaviour
NoModuleRun ==
    /\ params = None /\ device = None /\ mpc = "none"
    /\ locals = None /\ issued = << >> /\ outcome = None

Init ==
    /\ \E c \in Calls : op = c.op /\ input = c.text /\ sent = c.docs
    /\ pc = "idle"
    /\ lines = << >>
    /\ current_doc = << >>
    /\ in_doc = FALSE
    /\ documents = << >>
    /\ calls = << >>
    /\ xml_text = << >>
    /\ pos = 0
    /\ root = None
    /\ ret = "caller"
    /\ exc = ""
    /\ tree = None
    /\ path = << >>
    /\ query = "none"
    /\ result = None
    /\ frames = << >>
    /\ heap = << >>
    /\ NoModuleRun

\* a variant of the declaration test that takes any line opening a tag for a
\* declaration
is_declaration_loose(line) == StartsWith(line, <<"<">>)

\* line.startswith('<?xml')
is_declaration(line) == StartsWith(line, <<"<", "?", "x", "m", "l">>)

\* self._parse_xml(text) is entered from the place r: the text is recorded,
\* stripped and cut after its declaration, and the scan starts with no root
enter_parse_xml(text, r) ==
    /\ calls' = Append(calls, text)
    /\ xml_text' = parse_xml_start(text).xml_text
    /\ pos' = parse_xml_start(text).pos
    /\ root' = None
    /\ ret' = r
    /\ pc' = "build"

\* parse_response(response_text): no text gives no documents; otherwise the
\* text is split into lines
call_parse_response ==
    /\ pc = "idle" /\ op = "parse_response"
    /\ IF input = << >>
       THEN pc' = "done" /\ lines' = lines
       ELSE pc' = "split" /\ lines' = SplitLines(input)
    /\ UNCHANGED << op, input, sent, current_doc, in_doc, documents, calls,
                    builder, exc >>
    /\ UNCHANGED queries
    /\ UNCHANGED concurrent
    /\ UNCHANGED modulerun

\* _parse_xml(xml_text) called on its own: no text returns None at once
call_parse_xml ==
    /\ pc = "idle" /\ op = "parse_xml"
    /\ IF input = << >>
       THEN pc' = "done" /\ UNCHANGED << calls, builder >>
       ELSE enter_parse_xml(input, "caller")
    /\ UNCHANGED << op, input, sent, splitter, exc >>
    /\ UNCHANGED queries
    /\ UNCHANGED concurrent
    /\ UNCHANGED modulerun

\* one pass of the for loop of parse_response over the next line
split_line ==
    /\ pc = "split" /\ lines # << >>
    /\ LET line == Strip(Head(lines))
       IN  IF line = << >>
           THEN /\ lines' = Tail(lines)
                /\ UNCHANGED << pc, current_doc, in_doc, calls, builder >>
           ELSE IF is_declaration(line)
           THEN IF current_doc # << >>
                THEN /\ enter_parse_xml(JoinLines(current_doc), "loop")
                     /\ UNCHANGED << lines, current_doc, in_doc >>
                ELSE /\ current_doc' = << line >>
                     /\ in_doc' = TRUE
                     /\ lines' = Tail(lines)
                     /\ UNCHANGED << pc, calls, builder >>
           ELSE IF in_doc
           THEN /\ current_doc' = Append(current_doc, line)
                /\ lines' = Tail(lines)
                /\ UNCHANGED << pc, in_doc, calls, builder >>
           ELSE /\ lines' = Tail(lines)
                /\ UNCHANGED << pc, current_doc, in_doc, calls, builder >>
    /\ UNCHANGED << op, input, sent, documents, exc >>
    /\ UNCHANGED queries
    /\ UNCHANGED concurrent
    /\ UNCHANGED modulerun

\* a variant of the end of the for loop that returns the documents and
\* leaves the accumulation in progress aside
flush_dropping ==
    /\ pc = "split" /\ lines = << >>
    /\ pc' = "done"
    /\ UNCHANGED << op, input, sent, splitter, calls, builder, exc >>
    /\ UNCHANGED queries
    /\ UNCHANGED concurrent
    /\ UNCHANGED modulerun

\* after the last line: the accumulation in progress is handed to the
\* builder, or the documents are returned
flush ==
    /\ pc = "split" /\ lines = << >>
    /\ IF current_doc # << >>
       THEN enter_parse_xml(JoinLines(current_doc), "end")
       ELSE pc' = "done" /\ UNCHANGED << calls, builder >>
    /\ UNCHANGED << op, input, sent, splitter, exc >>
    /\ UNCHANGED queries
    /\ UNCHANGED concurrent
    /\ UNCHANGED modulerun

\* one iteration of the outer while loop of _parse_xml; an exception it
\* raises is caught nowhere and ends the call
build_step ==
    /\ pc = "build" /\ pos < Len(xml_text)
    /\ LET r == parse_xml_iteration(xml_text, pos, root)
       IN  /\ pos' = r.pos
           /\ root' = r.root
           /\ exc' = r.exc
           /\ pc' = IF r.exc = "" THEN "build" ELSE "raised"
    /\ UNCHANGED << op, input, sent, splitter, calls, xml_text, ret >>
    /\ UNCHANGED queries
    /\ UNCHANGED concurrent
    /\ UNCHANGED modulerun

\* the while loop of _parse_xml is left and root returned: to the for loop
\* of parse_response, which records the root and opens the next document
\* with the line it is at; to its final flush, which records the root and
\* returns the documents; or to the caller of _parse_xml
build_return ==
    /\ pc = "build" /\ pos >= Len(xml_text)
    /\ documents' = IF ret # "caller" /\ root # None
                    THEN Append(documents, root) ELSE documents
    /\ IF ret = "loop"
       THEN /\ current_doc' = << Strip(Head(lines)) >>
            /\ in_doc' = TRUE
            /\ lines' = Tail(lines)
            /\ pc' = "split"
       ELSE /\ pc' = "done"
            /\ UNCHANGED << lines, current_doc, in_doc >>
    /\ UNCHANGED << op, input, sent, calls, builder, exc >>
    /\ UNCHANGED queries
    /\ UNCHANGED concurrent
    /\ UNCHANGED modulerun

Next ==
    \/ call_parse_response
    \/ call_parse_xml
    \/ split_line
    \/ flush
    \/ build_step
    \/ build_return

Spec == Init /\ [][Next]_vars

(***************************************************************************)
(* The queries on their own: find and findall invoked, any number of       *)
(* times, with a path on a tree.                                           *)
(***************************************************************************)

\* the trees a node is queried on: every tree up to the bound, and the forks,
\* a node over two children that have at most one child each
Forks ==
    { [tag |-> t, attributes |-> << >>, children |-> << c1, c2 >>, text |-> None] :
        t \in TagNames,
        c1 \in TreesOf(2, TagNames, { << >> }),
        c2 \in TreesOf(2, TagNames, { << >> }) }

QueryTrees == TreesOf(MaxQueryNodes, TagNames, { << >> }) \cup Forks

RECURSIVE PartSeqs(_)
PartSeqs(n) ==
    IF n = 0 THEN { << >> }
    ELSE LET shorter == PartSeqs(n - 1)
         IN  shorter \cup { << t >> \o s : t \in TagNames, s \in shorter }

\* '/'.join(parts)
RECURSIVE JoinSlash(_)
JoinSlash(parts) ==
    IF parts = << >> THEN << >>
    ELSE IF Len(parts) = 1 THEN parts[1]
    ELSE parts[1] \o <<"/">> \o JoinSlash(Tail(parts))

\* chain paths, bare or wrapped in slashes, and the same behind the
\* descendant prefix; the empty string is among the first, the lone prefix
\* among the last; and the lone slash
Paths ==
    { JoinSlash(parts) : parts \in PartSeqs(MaxPathParts) }
    \cup { <<"/">> \o JoinSlash(parts) \o <<"/">> : parts \in PartSeqs(MaxPathParts) }
    \cup { <<".", "/", "/">> \o JoinSlash(parts) : parts \in PartSeqs(MaxPathParts) }
    \cup { <<"/">> }

QInit ==
    /\ op = "query" /\ input = << >> /\ sent = << >>
    /\ pc = "idle"
    /\ lines = << >>
    /\ current_doc = << >>
    /\ in_doc = FALSE
    /\ documents = << >>
    /\ calls = << >>
    /\ xml_text = << >>
    /\ pos = 0
    /\ root = None
    /\ ret = "caller"
    /\ exc = ""
    /\ tree \in QueryTrees
    /\ path \in Paths
    /\ query = "none"
    /\ result = None
    /\ frames = << >>
    /\ heap = << >>
    /\ NoModuleRun

\* a variant of find that leaves a mark on the node it is invoked on
do_find_marking ==
    /\ op = "query"
    /\ query' = "find"
    /\ result' = find(tree, path)
    /\ tree' = [tree EXCEPT !.text = path]
    /\ UNCHANGED << path, parser, concurrent, modulerun >>

\* tree.find(path)
do_find ==
    /\ op = "query"
    /\ query' = "find"
    /\ result' = find(tree, path)
    /\ UNCHANGED << tree, path, parser, concurrent, modulerun >>

\* tree.findall(path)
do_findall ==
    /\ op = "query"
    /\ query' = "findall"
    /\ result' = findall(tree, path)
    /\ UNCHANGED << tree, path, parser, concurrent, modulerun >>

QNext == do_find \/ do_findall

SpecQuery == QInit /\ [][QNext]_vars

(***************************************************************************)
(* Concurrent calls: two threads each run parse_response on an input of    *)
(* their own, their steps interleaved in any order.  All that a call works  *)
(* on is local to its frame; the node objects the calls create live in one  *)
(* heap, where the object at index id is [tag, attributes, children, text]  *)
(* with children the ids of its child objects.                             *)
(***************************************************************************)

ObjRef(id) == [ref |-> id]

\* the element tree that the object id of heap h is the root of
RECURSIVE deref(_, _)
deref(h, id) ==
    [tag |-> h[id].tag,
     attributes |-> h[id].attributes,
     children |-> [i \in 1 .. Len(h[id].children) |-> deref(h, h[id].children[i])],
     text |-> h[id].text]

\* the objects reached from object id through children lists
RECURSIVE reachable(_, _)
reachable(h, id) ==
    { id } \cup UNION { reachable(h, h[id].children[i]) :
                          i \in 1 .. Len(h[id].children) }

RECURSIVE alloc(_, _), alloc_children(_, _, _)

\* a variant of node construction that hands out an object already in the
\* heap when one with the same content exists
alloc_interned(h, t) ==
    IF \E i \in 1 .. Len(h) : deref(h, i) = t
    THEN [heap |-> h, id |-> CHOOSE i \in 1 .. Len(h) : deref(h, i) = t]
    ELSE LET id == Len(h) + 1
             made == Append(h, [tag |-> t.tag, attributes |-> t.attributes,
                                children |-> << >>, text |-> t.text])
         IN  [heap |-> alloc_children(made, id, t.children), id |-> id]

\* RibclNode(tag_name) and what follows it for the element tree t: a new
\* object with a dict and a list of its own, then its children, each
\* appended to the list once built.  The result is [heap, id].
alloc(h, t) ==
    LET id == Len(h) + 1
        made == Append(h, [tag |-> t.tag, attributes |-> t.attributes,
                           children |-> << >>, text |-> t.text])
    IN  [heap |-> alloc_children(made, id, t.children), id |-> id]

alloc_children(h, id, ts) ==
    IF ts = << >> THEN h
    ELSE LET c == alloc(h, ts[1])
         IN  alloc_children([c.heap EXCEPT ![id].children = Append(@, c.id)],
                            id, Tail(ts))

\* the frame of a call of parse_response(text) about to start
NewFrame(text) ==
    [input |-> text, pc |-> "idle", lines |-> << >>, current_doc |-> << >>,
     in_doc |-> FALSE, documents |-> << >>, xml_text |-> << >>, pos |-> 0,
     root |-> None, ret |-> "caller", exc |-> ""]

\* self._parse_xml(text) entered from the place r, in frame f
frame_enter_parse_xml(f, text, r) ==
    [f EXCEPT !.xml_text = parse_xml_start(text).xml_text,
              !.pos = parse_xml_start(text).pos,
              !.root = None, !.ret = r, !.pc = "build"]

\* one pass of the for loop of parse_response, in frame f
frame_split_line(f) ==
    LET line == Strip(Head(f.lines))
    IN  IF line = << >> THEN [f EXCEPT !.lines = Tail(f.lines)]
        ELSE IF is_declaration(line)
        THEN IF f.current_doc # << >>
             THEN frame_enter_parse_xml(f, JoinLines(f.current_doc), "loop")
             ELSE [f EXCEPT !.current_doc = << line >>, !.in_doc = TRUE,
                            !.lines = Tail(f.lines)]
        ELSE IF f.in_doc
        THEN [f EXCEPT !.current_doc = Append(f.current_doc, line),
                       !.lines = Tail(f.lines)]
        ELSE [f EXCEPT !.lines = Tail(f.lines)]

\* the frame and the heap once the iteration has given r and the objects of
\* a new root, if any, have been made
frame_rooted(f, r, made) ==
    [frame |-> [f EXCEPT !.pos = r.pos,
                         !.root = IF made.id = 0 THEN f.root
                                  ELSE ObjRef(made.id),
                         !.exc = r.exc,
                         !.pc = IF r.exc = "" THEN "build" ELSE "raised"],
     heap |-> made.heap]

\* root = node, for the first element the iteration r completes
frame_built(f, h, r) ==
    frame_rooted(f, r, IF f.root = None /\ r.root # None
                       THEN alloc(h, r.root) ELSE [heap |-> h, id |-> 0])

\* one iteration of the while loop of _parse_xml, in frame f: the element
\* that becomes the root is built out of new objects of heap h
frame_build_step(f, h) ==
    frame_built(f, h, parse_xml_iteration(f.xml_text, f.pos, None))

\* _parse_xml returns root, in frame f
frame_build_return(f) ==
    LET recorded == IF f.root # None THEN Append(f.documents, f.root)
                    ELSE f.documents
    IN  IF f.ret = "loop"
        THEN [f EXCEPT !.documents = recorded,
                       !.current_doc = << Strip(Head(f.lines)) >>,
                       !.in_doc = TRUE, !.lines = Tail(f.lines),
                       !.pc = "split"]
        ELSE [f EXCEPT !.documents = recorded, !.pc = "done"]

\* the next step of the call of parse_response in frame f, on heap h.  The
\* result is [frame, heap].
frame_step(f, h) ==
    IF f.pc = "idle"
    THEN [frame |-> IF f.input = << >> THEN [f EXCEPT !.pc = "done"]
                    ELSE [f EXCEPT !.pc = "split", !.lines = SplitLines(f.input)],
          heap |-> h]
    ELSE IF f.pc = "split"
    THEN [frame |-> IF f.lines # << >> THEN frame_split_line(f)
                    ELSE IF f.current_doc # << >>
                    THEN frame_enter_parse_xml(f, JoinLines(f.current_doc), "end")
                    ELSE [f EXCEPT !.pc = "done"],
          heap |-> h]
    ELSE IF f.pos < Len(f.xml_text) THEN frame_build_step(f, h)
    ELSE [frame |-> frame_build_return(f), heap |-> h]

MaxConcurrentDocs == 2

Threads == { 1, 2 }

\* the inputs of the concurrent calls: streams of the two documents of the
\* RIBCL example and of the one cut inside the opening tag of R
ConcurrentDocs ==
    { d \in StreamDocs : d.body \in { Render(RibclTree(<<"1">>)),
                                      Render(RibclTree(<<"2">>)), CutBody(9) } }

RECURSIVE ConcurrentDocSeqs(_)
ConcurrentDocSeqs(n) ==
    IF n = 0 THEN { << >> }
    ELSE LET shorter == ConcurrentDocSeqs(n - 1)
         IN  shorter \cup { << d >> \o s : d \in ConcurrentDocs, s \in shorter }

\* the first thread is given a stream of up to MaxConcurrentDocs documents,
\* the second a stream of one
ConcurrentInputs ==
    { StreamText(ds) : ds \in ConcurrentDocSeqs(MaxConcurrentDocs) \ { << >> } }

SingleDocInputs == { StreamText(<< d >>) : d \in ConcurrentDocs }

CInit ==
    /\ op = "concurrent" /\ input = << >> /\ sent = << >>
    /\ pc = "idle"
    /\ lines = << >>
    /\ current_doc = << >>
    /\ in_doc = FALSE
    /\ documents = << >>
    /\ calls = << >>
    /\ xml_text = << >>
    /\ pos = 0
    /\ root = None
    /\ ret = "caller"
    /\ exc = ""
    /\ tree = None
    /\ path = << >>
    /\ query = "none"
    /\ result = None
    /\ \E a \in ConcurrentInputs, b \in SingleDocInputs :
          a # b /\ frames = << NewFrame(a), NewFrame(b) >>
    /\ heap = << >>
    /\ NoModuleRun

\* the step of thread t has given r: its frame and the heap are replaced
thread_becomes(t, r) ==
    /\ frames' = [frames EXCEPT ![t] = r.frame]
    /\ heap' = r.heap

\* thread t takes the next step of its call
thread_step(t) ==
    /\ op = "concurrent"
    /\ frames[t].pc \notin { "done", "raised" }
    /\ thread_becomes(t, frame_step(frames[t], heap))
    /\ UNCHANGED << parser, queries, modulerun >>

CNext == \E t \in Threads : thread_step(t)

SpecConcurrent == CInit /\ [][CNext]_vars

(***************************************************************************)
(* Properties of the parser.                                               *)
(***************************************************************************)

\* text holds an opening tag with no '>' before the end of the text: a '<'
\* that starts neither a closing marker nor a declaration, with no '>'
\* anywhere after it
HasUnterminatedOpen(text) ==
    \E i \in 1 .. Len(text) - 1 :
        /\ text[i] = "<"
        /\ text[i + 1] \notin {"/", "?"}
        /\ \A j \in i + 1 .. Len(text) : text[j] # ">"

\* a document of a stream is malformed; is well-formed
IsMalformed(d) == d.tree = None /\ HasUnterminatedOpen(d.body)
IsWellFormed(d) == d.tree # None

\* the call is parse_response on a stream of declaration-delimited
\* documents and nothing else
IsStream == op = "parse_response" /\ input = StreamText(sent)

\* C1: a stream of well-formed documents and one malformed document (an
\* opening tag with no terminating '>') raises no error and returns one root
\* for each of the other documents (three documents, one of them malformed,
\* give two roots).
C1_PartialSuccess ==
    ( /\ IsStream
      /\ Cardinality({ i \in 1 .. Len(sent) : IsMalformed(sent[i]) }) = 1
      /\ \A i \in 1 .. Len(sent) : IsMalformed(sent[i]) \/ IsWellFormed(sent[i]) )
    => /\ pc # "raised"
       /\ pc = "done" => Len(documents) = Len(sent) - 1

\* C2: parse_response on N declaration-delimited well-formed documents
\* returns N roots, the i-th the root of the i-th document.
C2_OneRootPerDocument ==
    ( /\ IsStream
      /\ \A i \in 1 .. Len(sent) : IsWellFormed(sent[i])
      /\ pc = "done" )
    => /\ Len(documents) = Len(sent)
       /\ \A i \in 1 .. Len(sent) :
            to_dict(documents[i]) = to_dict(sent[i].tree)

\* C3: the root returned for a document is its outermost element, the first
\* top-level element after the declaration: it has that element's tag and
\* attributes.
C3_RootIsOutermost ==
    ( /\ IsStream
      /\ Len(sent) = 1 /\ IsWellFormed(sent[1])
      /\ pc = "done" /\ documents # << >> )
    => /\ documents[1].tag = sent[1].tree.tag
       /\ documents[1].attributes = sent[1].tree.attributes

\* C4: the tree built from a well-formed document serializes (to_dict) to
\* the tags, attributes and children, in order, of the document; stated for
\* documents without a declaration.
C4_RoundTrip ==
    ( /\ op = "parse_xml"
      /\ Len(sent) = 1 /\ IsWellFormed(sent[1]) /\ sent[1].decl = << >>
      /\ pc = "done" )
    => /\ root # None
       /\ to_dict(root) = to_dict(sent[1].tree)

\* C5: during the scan of a document the cursor advances on every step of
\* parse_response's tree builder; it never goes back.
C5_CursorAdvances ==
    [][ (op = "parse_response" /\ pc = "build" /\ pc' = "build") => pos' > pos ]_vars

\* the text the tree builder is working on, as it was handed over
CurrentText == calls[Len(calls)]

\* C6: while parse_response scans a document that holds an opening tag with
\* no terminating '>', the scan is not restarted and, when it ends, the
\* document contributes no root.
C6_UnterminatedTagAborts ==
    [][ ( /\ op = "parse_response" /\ pc = "build"
          /\ HasUnterminatedOpen(CurrentText) )
        => /\ pos' >= pos
           /\ documents' = documents ]_vars

\* no line of text begins, leading whitespace aside, with the declaration
\* marker: wherever '<?xml' occurs, something other than whitespace stands
\* before it on its line
NoDeclarationLine(text) ==
    \A i \in 0 .. Len(text) - 5 :
        Slice(text, i, i + 5) = <<"<", "?", "x", "m", "l">>
        => \E j \in 1 .. i :
              /\ ~IsSpace(text[j])
              /\ \A k \in j .. i : text[k] # "\n"

\* C7: when no line of the input begins with the declaration marker (the
\* line taken as the splitter reads it, without its surrounding whitespace),
\* parse_response never invokes the tree builder, records no document and
\* raises no error, and what it returns is the empty list.
C7_NoDeclarationNoDocuments ==
    (op = "parse_response" /\ NoDeclarationLine(input))
    => /\ pc \in {"idle", "split", "done"}
       /\ calls = << >>
       /\ documents = << >>
       /\ exc = ""

\* C7 happens: parse_response has returned for an input that holds tags and
\* no declaration line.
C7_Witness ==
    /\ op = "parse_response" /\ pc = "done"
    /\ NoDeclarationLine(input)
    /\ \E i \in 1 .. Len(input) - 1 : input[i] = "<" /\ IsWord(input[i + 1])
    /\ documents = << >>

\* no line of the text, taken as it stands in the text, begins with the
\* declaration marker
NoLineBeginsWithDeclaration(text) ==
    \A i \in 0 .. Len(text) - 5 :
        Slice(text, i, i + 5) = <<"<", "?", "x", "m", "l">>
        => (i > 0 /\ text[i] # "\n")

\* C7 as stated, the lines taken as they stand in the input: when no line
\* begins with the declaration marker, parse_response never invokes the tree
\* builder, records no document and raises no error.
C7_AsStated ==
    (op = "parse_response" /\ NoLineBeginsWithDeclaration(input))
    => /\ pc \in {"idle", "split", "done"}
       /\ calls = << >>
       /\ documents = << >>
       /\ exc = ""

\* C8: once the root of a document is established the scan of the document
\* is over: no further step of the scan, whatever follows the root in the
\* text, raises an error or changes the root.
C8_ScanStopsAtRoot ==
    [][ (pc = "build" /\ root # None) => (pc' # "raised" /\ root' = root) ]_vars

(***************************************************************************)
(* Properties of the queries.  A position is the sequence of child indices *)
(* that leads from the invoking node to a node below it.                   *)
(***************************************************************************)

RECURSIVE Positions(_)
Positions(t) ==
    { << >> } \cup
    UNION { { << i >> \o q : q \in Positions(t.children[i]) } :
            i \in 1 .. Len(t.children) }

\* position p is reached from the invoking node by a complete chain of
\* direct-child links whose tags are the parts, in order
ChainOf(t, p, parts) ==
    /\ Len(p) = Len(parts)
    /\ \A k \in 1 .. Len(p) : node_at(t, SubSeq(p, 1, k)).tag = parts[k]

\* ... and every link goes to the first child with the tag of its part
FirstChain(t, p, parts) ==
    /\ ChainOf(t, p, parts)
    /\ \A k \in 1 .. Len(p) :
          \A j \in 1 .. p[k] - 1 :
              node_at(t, SubSeq(p, 1, k - 1)).children[j].tag # parts[k]

\* the chain paths that name the parts: bare, or wrapped in slashes
ChainPaths(parts) ==
    { JoinSlash(parts), <<"/">> \o JoinSlash(parts) \o <<"/">> }

\* document order of two positions of the same depth
DocBefore(p, q) ==
    \E k \in 1 .. Len(p) :
        /\ SubSeq(p, 1, k - 1) = SubSeq(q, 1, k - 1)
        /\ p[k] < q[k]

\* C9: find(path) returns the node reached by taking, for each part of the
\* path in turn, the first child with the tag of the part, starting below
\* the invoking node; it returns None when that walk meets a level without
\* a matching child.
C9_FindFirstChild ==
    query = "find" =>
    \A parts \in PartSeqs(MaxPathParts) \ { << >> } :
        path \in ChainPaths(parts) =>
        LET firsts == { p \in Positions(tree) : FirstChain(tree, p, parts) }
        IN  IF firsts = {} THEN result = None
            ELSE result \in { NodeRef(p) : p \in firsts }

\* C9 happens: find has returned a node two levels down although a later
\* sibling of it bears the same tag.
C9_Witness ==
    /\ query = "find" /\ result # None
    /\ Len(result.at) >= 2
    /\ LET parent == node_at(tree, SubSeq(result.at, 1, Len(result.at) - 1))
           last == result.at[Len(result.at)]
       IN  \E j \in last + 1 .. Len(parent.children) :
               parent.children[j].tag = parent.children[last].tag

\* C10: findall(path) with a chain path returns exactly the nodes reached by
\* a complete chain of direct-child links for the parts of the path, each
\* once, in document order.
C10_FindallFanOut ==
    query = "findall" =>
    \A parts \in PartSeqs(MaxPathParts) \ { << >> } :
        path \in ChainPaths(parts) =>
        LET chains == { p \in Positions(tree) : ChainOf(tree, p, parts) }
        IN  /\ Len(result) = Cardinality(chains)
            /\ { result[i].at : i \in 1 .. Len(result) } = chains
            /\ \A i, j \in 1 .. Len(result) :
                   i < j => DocBefore(result[i].at, result[j].at)

\* C10 happens: findall has returned nodes under two different children of
\* the invoking node for a path of two parts.
C10_Witness ==
    /\ query = "findall"
    /\ ~ StartsWith(path, <<".", "/", "/">>)
    /\ Len(result) >= 2
    /\ Len(result[1].at) = 2
    /\ result[1].at[1] # result[2].at[1]

\* depth-first discovery order of two positions: a node comes before the
\* nodes below it, and before the nodes of its later siblings
PreOrderBefore(p, q) ==
    \/ Len(p) < Len(q) /\ SubSeq(q, 1, Len(p)) = p
    \/ \E k \in 1 .. Min({ Len(p), Len(q) }) :
          /\ SubSeq(p, 1, k - 1) = SubSeq(q, 1, k - 1)
          /\ p[k] < q[k]

\* the path of the descendant query for a tag
DescendantPath(t) == <<".", "/", "/">> \o t

\* C11: findall('.//TAG') returns exactly the nodes tagged TAG below the
\* starting node, the starting node itself left out, each once, in
\* depth-first discovery order.
C11_DescendantsOnly ==
    query = "findall" =>
    \A t \in TagNames :
        path = DescendantPath(t) =>
        LET below == { p \in Positions(tree) \ { << >> } : node_at(tree, p).tag = t }
        IN  /\ Len(result) = Cardinality(below)
            /\ { result[i].at : i \in 1 .. Len(result) } = below
            /\ \A i, j \in 1 .. Len(result) :
                   i < j => PreOrderBefore(result[i].at, result[j].at)

\* the nodes of tree t that findall('.//TAG') returns from it
Discovered(t, tag) ==
    LET refs == findall(t, DescendantPath(tag))
    IN  { node_at(t, refs[k].at) : k \in 1 .. Len(refs) }

\* the document is well formed and has elements inside its outermost element
HasInnerElements(d) == IsWellFormed(d) /\ d.tree.children # << >>

\* C12: when parse_response has returned for a stream of well-formed
\* documents that have elements inside their outermost element, there is a
\* root for every document, and every such element is found from the root
\* of its document by the descendant query for its tag, with its attributes
\* (the status carried by an attribute is read nowhere).
C12_ResponseDiscoverable ==
    (IsStream /\ pc = "done" /\ \A i \in 1 .. Len(sent) : HasInnerElements(sent[i]))
    => /\ Len(documents) = Len(sent)
       /\ \A i \in 1 .. Len(sent) :
             \A p \in Positions(sent[i].tree) \ { << >> } :
                 LET element == node_at(sent[i].tree, p)
                 IN  \E n \in Discovered(documents[i], element.tag) :
                         /\ n.tag = element.tag
                         /\ n.attributes = element.attributes

\* the references to the nodes of tree t
NodeRefs(t) == { NodeRef(p) : p \in Positions(t) }

\* C13: for every tree and every path string, find returns a node of the
\* tree or None and findall returns a list of nodes of the tree; neither
\* raises.
C13_QueriesNeverRaise ==
    /\ query = "find" => (result = None \/ result \in NodeRefs(tree))
    /\ query = "findall" => result \in Seq(NodeRefs(tree))
    /\ op = "query" => exc = ""

\* C13 happens: find has returned None for the path '/', whose only part is
\* the empty string.
C13_Witness ==
    query = "find" /\ path = <<"/">> /\ result = None

RECURSIVE BlockBodies(_)
BlockBodies(n) ==
    IF n = 0 THEN { << >> }
    ELSE LET shorter == BlockBodies(n - 1)
         IN  shorter \cup { p \o s : p \in { <<"<", "B", "/", ">">>, <<"x">>, <<" ">> },
                                      s \in shorter }

\* the block '<A>', the body, and the closing marker of the longer tag AB
ClosedByLonger(body) ==
    <<"<", "A", ">">> \o body \o <<"<", "/", "A", "B", ">">>

\* the elements of a block body: a node B for each self-closing tag in it
ElementsOf(body) ==
    LET n == Cardinality({ i \in 1 .. Len(body) : body[i] = "<" })
    IN  [i \in 1 .. n |-> RibclNode(<<"B">>)]

\* C16: the tree builder, at the start of a text that opens a block A and
\* goes on to the closing marker of a longer tag AB, takes that marker for
\* the end of the block: the root is A, its children are the elements
\* before the marker, and the scan resumes just after the marker.  A block
\* A nested in the block does the same: the marker ends it, and the outer
\* block with it.
C16_PrefixClosing ==
    [][ /\ \A body \in BlockBodies(MaxPieces - 2) :
            ( /\ pc = "build" /\ pos = 0 /\ root = None
              /\ StartsWith(xml_text, ClosedByLonger(body)) )
            => /\ pc' = "build"
               /\ root' = [RibclNode(<<"A">>) EXCEPT !.children = ElementsOf(body)]
               /\ pos' = Len(ClosedByLonger(body))
        /\ ( /\ pc = "build" /\ pos = 0 /\ root = None
             /\ StartsWith(xml_text, <<"<", "A", ">">> \o ClosedByLonger(<< >>)) )
           => /\ pc' = "build"
              /\ root' = add_child(RibclNode(<<"A">>), RibclNode(<<"A">>))
              /\ pos' = Len(<<"<", "A", ">">> \o ClosedByLonger(<< >>)) ]_vars

\* C16 happens: the text '<A><B/></AB>' has been built into the root A with
\* the one child B.
C16_Witness ==
    /\ op = "parse_xml" /\ pc = "done"
    /\ input = ClosedByLonger(<<"<", "B", "/", ">">>)
    /\ root # None /\ root.tag = <<"A">> /\ Len(root.children) = 1
    /\ pos = Len(input)

\* a self-closing tag opens at position i of text: '<', not a closing
\* marker, and the text up to the next '>' ends in '/'
IsSelfClosingAt(text, i) ==
    /\ i + 1 < Len(text)
    /\ text[i + 1] = "<" /\ text[i + 2] # "/"
    /\ StrFind(text, <<">">>, i) # -1
    /\ EndsWith(Slice(text, i + 1, StrFind(text, <<">">>, i)), <<"/">>)

IsLeaf(node) == node # None /\ node.children = << >> /\ node.text = None

\* C17: wherever the text under the tree builder holds a self-closing tag,
\* the node made for it as a child has no children and no text, and so has
\* the root when the scan meets the tag at top level; and in the roots
\* parse_response records, the nodes tagged R, a tag the inputs hold in
\* self-closing form only, have no children and no text.
C17_SelfClosingIsLeaf ==
    [][ /\ pc = "build" =>
            \A i \in 0 .. Len(xml_text) - 1 :
                IsSelfClosingAt(xml_text, i) =>
                /\ IsLeaf(parse_node(SliceFrom(xml_text, i)).node)
                /\ (root = None /\ pos < Len(xml_text) /\ SkipSpace(xml_text, pos) = i)
                   => IsLeaf(root')
        /\ \A i \in 1 .. Len(documents') :
              \A p \in Positions(documents'[i]) :
                  node_at(documents'[i], p).tag = <<"R">>
                  => IsLeaf(node_at(documents'[i], p)) ]_vars

\* C17 happens: parse_response has returned a root made for the
\* self-closing tag <R S="1"/>: tag R, the attribute S, no children.
C17_Witness ==
    /\ op = "parse_response" /\ pc = "done"
    /\ documents # << >>
    /\ documents[1] = set_attribute(RibclNode(<<"R">>), <<"S">>, <<"1">>)

\* C18: every node of every root recorded by parse_response has a tag that
\* is not the empty string.
C18_TagsNonEmpty ==
    op = "parse_response" =>
    \A i \in 1 .. Len(documents) :
        \A p \in Positions(documents[i]) :
            node_at(documents[i], p).tag # << >>

\* the attribute map of a sequence of pairs: each name with the value of
\* the last pair that bears it
AttrsOf(pairs) ==
    LET names == { pairs[i][1] : i \in 1 .. Len(pairs) }
        last(n) == CHOOSE i \in 1 .. Len(pairs) :
                       /\ pairs[i][1] = n
                       /\ \A j \in i + 1 .. Len(pairs) : pairs[j][1] # n
    IN  [n \in names |-> pairs[last(n)][2]]

\* the call is the tree builder on a tag written from attribute pairs
IsAttrCall ==
    op = "parse_xml" /\ Len(sent) = 1 /\ "pairs" \in DOMAIN sent[1]

\* a value that holds the character that ends a tag
HasTagEnd(value) == \E i \in 1 .. Len(value) : value[i] = ">"

\* the pairs that stand whole in the attribute text of the tag, which is
\* the text up to the first '>': those written before the first value that
\* holds a '>'
RECURSIVE PairsOfAttrText(_)
PairsOfAttrText(pairs) ==
    IF pairs = << >> \/ HasTagEnd(pairs[1][2]) THEN << >>
    ELSE << pairs[1] >> \o PairsOfAttrText(Tail(pairs))

Terminal(f) == f.pc \in { "done", "raised" }

\* the call of frame f run to its end with no other call about
RECURSIVE run_alone(_, _)
run_alone(f, h) ==
    IF Terminal(f) THEN [frame |-> f, heap |-> h]
    ELSE LET r == frame_step(f, h) IN run_alone(r.frame, r.heap)

\* what the call of frame f gives its caller: the exception that ended it,
\* or the element trees of the roots it returns
Outcome(f, h) ==
    [exc |-> f.exc,
     returned |-> IF f.pc = "done"
                  THEN [i \in 1 .. Len(f.documents) |-> deref(h, f.documents[i].ref)]
                  ELSE << >>]

Alone(text) ==
    LET r == run_alone(NewFrame(text), << >>) IN Outcome(r.frame, r.heap)

\* the node objects of the roots recorded in frame f
NodesOf(f, h) ==
    UNION { reachable(h, f.documents[i].ref) : i \in 1 .. Len(f.documents) }

StrayTexts == { <<"x">>, <<" ">>, <<"<">>, <<">">> }
SurroundingTags == { << >>, <<"<", "B", "/", ">">> }

\* C19: for a document that holds stray text before, after or between its
\* tags, parse_response raises nothing and returns what it returns for the
\* document without the stray text.
C19_StrayTextSkipped ==
    \A s \in StrayTexts : \A before, after \in SurroundingTags :
        (op = "parse_response" /\ input = TailDoc(before \o s \o after))
        => /\ pc # "raised"
           /\ pc = "done" =>
                 [exc |-> exc, returned |-> documents]
                 = Alone(TailDoc(before \o after))

(***************************************************************************)
(* Properties of the cursor.                                               *)
(***************************************************************************)

\* C24: only the leading declaration is skipped: each time the tree builder
\* is entered, the scan starts at the first character of the text that is
\* left once the declaration is cut, so that no character of the document
\* body is passed over.
C24_ScanStartsAtBody ==
    [][calls' # calls => pos' = 0]_vars

\* the number of elements of an element tree
RECURSIVE NodeCount(_), NodeCountAll(_)
NodeCount(t) == 1 + NodeCountAll(t.children)

NodeCountAll(ts) ==
    IF ts = << >> THEN 0 ELSE NodeCount(ts[1]) + NodeCountAll(Tail(ts))

\* the tags of the children of an element tree, in order
ChildTags(t) == [i \in 1 .. Len(t.children) |-> t.children[i].tag]

\* C25: the cursor of a block resumes after the closing marker of a child
\* once the child is attached, so that every element of the source is in
\* the tree exactly once, under the element that encloses it: the tree
\* built from a well-formed document without declaration has as many
\* elements as the document, and its root the children the document gives
\* its outermost element.
C25_EachElementOnce ==
    (/\ op = "parse_xml" /\ pc = "done"
     /\ Len(sent) = 1 /\ sent[1].decl = << >> /\ IsWellFormed(sent[1]))
    => /\ root # None
       /\ NodeCount(root) = NodeCount(sent[1].tree)
       /\ ChildTags(root) = ChildTags(sent[1].tree)

(***************************************************************************)
(* Properties of the document splitter.                                    *)
(***************************************************************************)

\* the line begins with the declaration marker
BeginsWithDeclaration(line) ==
    Len(line) >= 5 /\ SubSeq(line, 1, 5) = <<"<", "?", "x", "m", "l">>

\* the lines of ls that are not blank
RECURSIVE NonBlank(_)
NonBlank(ls) ==
    IF ls = << >> THEN << >>
    ELSE IF \A i \in 1 .. Len(ls[1]) : IsSpace(ls[1][i])
    THEN NonBlank(Tail(ls))
    ELSE << ls[1] >> \o NonBlank(Tail(ls))

\* the lines of ls without their surrounding whitespace
StrippedLines(ls) == [i \in 1 .. Len(ls) |-> Strip(ls[i])]

\* the lines of ls grouped by declaration line: the lines before the first
\* declaration line belong to no group, every declaration line opens a
\* group, every other line joins the group that is open
RECURSIVE GroupsOf(_)
GroupsOf(ls) ==
    IF ls = << >> THEN << >>
    ELSE LET before == GroupsOf(SubSeq(ls, 1, Len(ls) - 1))
             line == ls[Len(ls)]
         IN  IF BeginsWithDeclaration(line) THEN Append(before, << line >>)
             ELSE IF before = << >> THEN << >>
             ELSE [before EXCEPT ![Len(before)] = Append(@, line)]

\* the lines of a group written one under the other
RECURSIVE GroupText(_)
GroupText(g) ==
    IF Len(g) = 1 THEN g[1]
    ELSE GroupText(SubSeq(g, 1, Len(g) - 1)) \o <<"\n">> \o g[Len(g)]

\* the texts of the documents of a response, its lines taken without
\* their surrounding whitespace
DocumentTexts(text) ==
    LET groups == GroupsOf(NonBlank(StrippedLines(SplitLines(text))))
    IN  [i \in 1 .. Len(groups) |-> GroupText(groups[i])]

\* the texts of the documents of a response, its lines taken as they stand
DocumentTextsAsWritten(text) ==
    LET groups == GroupsOf(NonBlank(SplitLines(text)))
    IN  [i \in 1 .. Len(groups) |-> GroupText(groups[i])]

IsPrefix(s, t) == Len(s) <= Len(t) /\ SubSeq(t, 1, Len(s)) = s

StopsShort(t, parts, first) ==
    \E k \in 1 .. Len(parts) - 1 :
        \E q \in Positions(t) :
            /\ FirstChain(t, q, SubSeq(parts, 1, k))
            /\ \A j \in 1 .. Len(node_at(t, q).children) :
                   node_at(t, q).children[j].tag # parts[k + 1]
            /\ SubSeq(first.at, 1, k) # q
            /\ DocBefore(q, SubSeq(first.at, 1, k))

\* C29: on a chain path find and findall agree in one direction: when find
\* returns a node, findall on the same node and path returns a list that
\* begins with that node; and when find returns None although findall
\* returns nodes, find has followed a first matching child that lacks the
\* next part while a later matching sibling has it.
C29_FindIsFirstOfFindall ==
    \A parts \in PartSeqs(MaxPathParts) \ { << >> } :
        path \in ChainPaths(parts) =>
        /\ (query = "find" /\ result # None)
           => /\ findall(tree, path) # << >>
              /\ findall(tree, path)[1] = result
        /\ (query = "find" /\ result = None /\ findall(tree, path) # << >>)
           => StopsShort(tree, parts, findall(tree, path)[1])
        /\ (query = "findall" /\ find(tree, path) # None)
           => /\ result # << >>
              /\ result[1] = find(tree, path)

\* find has returned None on a chain path for which findall returns a node
C29_Witness ==
    /\ query = "find" /\ result = None
    /\ \E parts \in PartSeqs(MaxPathParts) \ { << >> } : path \in ChainPaths(parts)
    /\ findall(tree, path) # << >>

\* the descendant form of the tags: './/' and the tags joined by slashes
DescendantForm(parts) == <<".", "/", "/">> \o JoinSlash(parts)

\* C30: the descendant form is recognised by findall only: find takes
\* './/TAG' for the chain path with the components '.', '' and 'TAG' and,
\* no node being tagged '.', returns None, also when findall with the same
\* path on the same node returns nodes.
C30_FindIgnoresDescendantForm ==
    \A parts \in PartSeqs(MaxPathParts) \ { << >> } :
        (query = "find" /\ path = DescendantForm(parts))
        => /\ path_parts(path) = << <<".">>, << >> >> \o parts
           /\ result = None

\* find has returned None for './/A' on a node below which findall with the
\* same path finds a node
C30_Witness ==
    /\ query = "find" /\ result = None
    /\ path = DescendantForm(<< <<"A">> >>)
    /\ findall(tree, path) # << >>
    /\ \E i \in 1 .. Len(tree.children) : tree.children[i].tag = <<"A">>

(***************************************************************************)
(* Module runs.  A run of an Ansible module (plugins/modules) talks to the *)
(* management controller through execute_command of IloBaseModule, one     *)
(* command at a time; every command is one step of the run.  The device    *)
(* is part of the state: a command that succeeds has its effect on it.     *)
(* fail_json and exit_json end the run (AnsibleModule exits the process).  *)
(***************************************************************************)

\* the parser, the queries and the concurrent calls are no part of the
\* behaviour
NoParserCall ==
    /\ op = "module" /\ input = << >> /\ sent = << >>
    /\ pc = "idle"
    /\ lines = << >>
    /\ current_doc = << >>
    /\ in_doc = FALSE
    /\ documents = << >>
    /\ calls = << >>
    /\ xml_text = << >>
    /\ pos = 0
    /\ root = None
    /\ ret = "caller"
    /\ exc = ""
    /\ tree = None
    /\ path = << >>
    /\ query = "none"
    /\ result = None
    /\ frames = << >>
    /\ heap = << >>

\* module.fail_json(msg=...) and module.exit_json(**result)
fail_json(msg) == [kind |-> "fail_json", msg |-> msg]
exit_json(res) == [kind |-> "exit_json", result |-> res]

\* how execute_command(command) can end: "ok" (exit status 0), "error" (any
\* other exit status, or an exception while the command runs), and, for
\* the first command of a run, "unreachable": connect() fails and reports
\* it through fail_json
Ends(ssh) == IF ssh THEN { "ok", "error" } ELSE { "ok", "error", "unreachable" }

\* the record of a command that was executed
Executed(command, end) == [command |-> command, success |-> end = "ok"]

\* the run ends inside connect()
unreachable ==
    /\ mpc' = "failed"
    /\ outcome' = fail_json("Failed to connect to iLO")
    /\ UNCHANGED << params, device, locals, issued >>

\* the run ends with fail_json(msg) after the command was executed
failed_after(command, end, msg) ==
    /\ mpc' = "failed"
    /\ outcome' = fail_json(msg)
    /\ issued' = Append(issued, Executed(command, end))
    /\ locals' = [locals EXCEPT !.ssh = TRUE]
    /\ UNCHANGED << params, device >>

\* the text s is part of the text line
Contains(line, s) == StrFind(line, s, 0) # -1

(***************************************************************************)
(* ilo_hostname (plugins/modules/ilo_hostname.py).  The device holds a     *)
(* hostname and prints it under the key it uses for the property; the      *)
(* unit tests of the module feed the key in lower case.                    *)
(***************************************************************************)

MaxHostnames == 3

\* None where a text is expected: a value that is no text of the model
NoText == << "None" >>

\* the hostnames of the model
Hostnames == { << <<"a", "b", "c", "d">>[i] >> : i \in 1 .. MaxHostnames }

HostnameKeys == { <<"H", "o", "s", "t", "n", "a", "m", "e">>,
                  <<"h", "o", "s", "t", "n", "a", "m", "e">> }

\* what the device prints for "show /map1/dnsendpt1"
show_dnsendpt(dev) ==
    <<"/", "m", "a", "p", "1", "\n", " ", " ">> \o dev.key \o <<"=">>
    \o dev.hostname \o <<" ", "\n">>

\* s.split("=")[1]: what stands between the first '=' and the next one
second_of_split(s) ==
    LET a == StrFind(s, <<"=">>, 0)
        b == StrFind(s, <<"=">>, a + 1)
    IN  IF b = -1 THEN SliceFrom(s, a + 1) ELSE Slice(s, a + 1, b)

\* the for loop of get_current_hostname over the lines of stdout: the
\* hostname of the first line that holds "Hostname=", NoText when no line does
hostname_in(stdout) ==
    LET ls == SplitLines(stdout)
        hits == { i \in 1 .. Len(ls) :
                    Contains(ls[i], <<"H", "o", "s", "t", "n", "a", "m", "e", "=">>) }
    IN  IF hits = {} THEN NoText ELSE Strip(second_of_split(ls[Min(hits)]))

ShowHostname == << "show /map1/dnsendpt1" >>
SetHostname(h) == << "set /map1/dnsendpt1 Hostname=", h >>

HostnameParams ==
    { [state |-> s, ilo_hostname |-> h] :
        s \in { "get", "present" }, h \in Hostnames \cup { NoText, << >> } }

HInit ==
    /\ NoParserCall
    /\ params \in HostnameParams
    /\ device \in { [hostname |-> h, key |-> k] : h \in Hostnames, k \in HostnameKeys }
    /\ mpc = "run_module"
    /\ locals = [ssh |-> FALSE, result |-> [changed |-> FALSE, hostname |-> NoText]]
    /\ issued = << >>
    /\ outcome = None

\* get_current_hostname(), executed with the end given: either the hostname
\* read, or the message of the fail_json that ends the run
get_current_hostname(end) ==
    IF end # "ok" THEN fail_json("Failed to get hostname")
    ELSE IF hostname_in(show_dnsendpt(device)) = NoText
    THEN fail_json("Failed to parse hostname from output")
    ELSE [kind |-> "hostname", hostname |-> hostname_in(show_dnsendpt(device))]

\* the run goes on at the place given with the result so far, the query
\* having been executed
hostname_goes_on(place, res) ==
    /\ mpc' = place
    /\ locals' = [locals EXCEPT !.ssh = TRUE, !.result = res]
    /\ issued' = Append(issued, Executed(ShowHostname, "ok"))
    /\ UNCHANGED << params, device, outcome >>

\* the run returns the result to main, which hands it to exit_json
hostname_exits(res, command, end) ==
    /\ mpc' = "exited"
    /\ outcome' = exit_json(res)
    /\ locals' = [locals EXCEPT !.ssh = TRUE, !.result = res]
    /\ issued' = Append(issued, Executed(command, end))
    /\ UNCHANGED params

\* run_module() up to the call of set_hostname: the current hostname is
\* read and recorded; state "get" returns it; state "present" needs the
\* parameter ilo_hostname
hostname_run_module ==
    /\ mpc = "run_module"
    /\ \E end \in Ends(locals.ssh) :
          IF end = "unreachable" THEN unreachable
          ELSE LET got == get_current_hostname(end)
                   res == [changed |-> FALSE, hostname |-> got.hostname]
               IN  IF got.kind = "fail_json"
                   THEN failed_after(ShowHostname, end, got.msg)
                   ELSE IF params.state = "get"
                   THEN hostname_exits(res, ShowHostname, end)
                        /\ UNCHANGED device
                   ELSE IF params.ilo_hostname \in { NoText, << >> }
                   THEN failed_after(ShowHostname, end,
                            "ilo_hostname parameter is required when state is present")
                   ELSE hostname_goes_on("set_hostname", res)
    /\ UNCHANGED << parser, queries, concurrent >>

\* set_hostname(new_hostname) up to the comparison: the current hostname is
\* read once more; when it is the new one, nothing is to be done
hostname_set_hostname ==
    /\ mpc = "set_hostname"
    /\ \E end \in Ends(locals.ssh) :
          LET got == get_current_hostname(end)
          IN  IF got.kind = "fail_json"
              THEN failed_after(ShowHostname, end, got.msg)
              ELSE IF got.hostname = params.ilo_hostname
              THEN hostname_exits([changed |-> FALSE,
                                   hostname |-> params.ilo_hostname],
                                  ShowHostname, end)
                   /\ UNCHANGED device
              ELSE hostname_goes_on("set_command", locals.result)
    /\ UNCHANGED << parser, queries, concurrent >>

\* the rest of set_hostname: the set command is executed, its outcome is
\* logged, and changed=True is returned whatever the outcome
hostname_set_command ==
    /\ mpc = "set_command"
    /\ \E end \in Ends(locals.ssh) :
          /\ hostname_exits([changed |-> TRUE, hostname |-> params.ilo_hostname],
                            SetHostname(params.ilo_hostname), end)
          /\ device' = IF end = "ok"
                       THEN [device EXCEPT !.hostname = params.ilo_hostname]
                       ELSE device
    /\ UNCHANGED << parser, queries, concurrent >>

HNext ==
    \/ hostname_run_module
    \/ hostname_set_hostname
    \/ hostname_set_command

SpecHostname == HInit /\ [][HNext]_vars

(***************************************************************************)
(* Properties of ilo_hostname.                                             *)
(***************************************************************************)

IsShowHostname(e) == e.command = ShowHostname
IsSetHostname(e) == e.command[1] = SetHostname(<< >>)[1]

\* C21: with state "present" and a desired hostname that is not the current
\* one, a set command that fails makes the run end with fail_json: it does
\* not end with a result that says changed=True.
C21_SetFailureReported ==
    (/\ params.state = "present"
     /\ \E i \in 1 .. Len(issued) :
           IsSetHostname(issued[i]) /\ ~issued[i].success
     /\ outcome # None)
    => /\ outcome.kind = "fail_json"
       /\ ~(outcome.kind = "exit_json" /\ outcome.result.changed)

\* C22: with state "present", a run that returns when the device holds the
\* desired hostname returns changed=False with that hostname and has issued
\* no set command; a run that returns after a set command that succeeded,
\* the device holding another hostname, returns changed=True with the new
\* hostname, having issued exactly one query and one set command.
C22_Idempotent ==
    [][ (mpc' = "exited" /\ params.state = "present")
        => IF device.hostname = params.ilo_hostname
           THEN /\ outcome'.result = [changed |-> FALSE,
                                     hostname |-> params.ilo_hostname]
                /\ \A i \in 1 .. Len(issued') : ~IsSetHostname(issued'[i])
           ELSE issued'[Len(issued')].success
                => /\ outcome'.result = [changed |-> TRUE,
                                        hostname |-> params.ilo_hostname]
                   /\ Cardinality({ i \in 1 .. Len(issued') :
                                      IsShowHostname(issued'[i]) }) = 1
                   /\ Cardinality({ i \in 1 .. Len(issued') :
                                      IsSetHostname(issued'[i]) }) = 1 ]_vars

(***************************************************************************)
(* ilo_power_settings (plugins/modules/ilo_power_settings.py).  The device *)
(* holds the power regulator mode and the automatic power-on setting and   *)
(* prints them as it spells them; it prints its properties under the       *)
(* header "Properties" or, in the bare layout, without a header.  A line   *)
(* of its output is taken as the word it consists of, or as a key and a    *)
(* value.                                                                  *)
(***************************************************************************)

\* None where a setting is expected
NoValue == "<None>"

\* value.strip().lower() of the values the device prints
lower(value) ==
    CASE value = "Dynamic" -> "dynamic"
      [] value = "OS" -> "os"
      [] value = "Off" -> "off"
      [] value = "On (30 Seconds)" -> "on (30 seconds)"
      [] OTHER -> value

\* the value of oemhp_auto_pwr: "on (X seconds)" becomes "X"
seconds_of(value) ==
    CASE value = "on (30 seconds)" -> "30"
      [] OTHER -> value

\* the spellings the device prints for the settings
PowerRegSpellings == { "dynamic", "Dynamic", "os", "OS" }
AutoPowerSpellings == { "Off", "off", "On (30 Seconds)" }

\* what the device prints for "show /system1/oemhp_power1"
show_oemhp_power(dev) ==
    << [word |-> "/system1/oemhp_power1"], [word |-> "Targets"] >>
    \o (IF dev.layout = "properties" THEN << [word |-> "Properties"] >> ELSE << >>)
    \o << [key |-> "oemhp_powerreg", value |-> dev.powerreg],
          [key |-> "oemhp_auto_pwr", value |-> dev.auto_pwr],
          [word |-> "Verbs"] >>

\* the for loop of get_power_settings over the lines of stdout, from line
\* i on, with the settings read so far
RECURSIVE read_settings(_, _, _, _)
read_settings(ls, i, in_properties, settings) ==
    IF i > Len(ls) THEN settings
    ELSE IF "word" \in DOMAIN ls[i]
    THEN read_settings(ls, i + 1, ls[i].word = "Properties", settings)
    ELSE IF ~in_properties THEN read_settings(ls, i + 1, in_properties, settings)
    ELSE IF ls[i].key = "oemhp_powerreg"
    THEN read_settings(ls, i + 1, in_properties,
                       ("power_reg_mode" :> lower(ls[i].value)) @@ settings)
    ELSE IF ls[i].key = "oemhp_auto_pwr"
    THEN read_settings(ls, i + 1, in_properties,
                       ("auto_power" :> seconds_of(lower(ls[i].value))) @@ settings)
    ELSE read_settings(ls, i + 1, in_properties, settings)

\* settings.get(key)
get(settings, key) ==
    IF key \in DOMAIN settings THEN settings[key] ELSE NoValue

ShowPower == << "show /system1/oemhp_power1" >>
SetPowerReg(v) == << "set /system1/oemhp_power1 oemhp_powerreg=", v >>
SetAutoPower(v) == << "set /system1/oemhp_power1 oemhp_auto_pwr=", v >>

\* the spelling the device takes for the value a set command gives it
spelled(key, v) ==
    IF key = "auto_power" /\ v = "30" THEN "On (30 Seconds)"
    ELSE IF key = "auto_power" /\ v = "off" THEN "Off"
    ELSE v

PowerSettingsParams ==
    { [power_reg_mode |-> m, auto_power |-> a] :
        m \in { NoValue, "dynamic", "os" }, a \in { NoValue, "off", "30" } }

PSInit ==
    /\ NoParserCall
    /\ params \in PowerSettingsParams
    /\ device \in { [powerreg |-> m, auto_pwr |-> a, layout |-> l] :
                      m \in PowerRegSpellings, a \in AutoPowerSpellings,
                      l \in { "properties", "bare" } }
    /\ mpc = "run_module"
    /\ locals = [ssh |-> FALSE, changed |-> FALSE, current_settings |-> << >>]
    /\ issued = << >>
    /\ outcome = None

\* a variant of the test of run_module that takes every requested setting
\* for one to be set
differs_always(current_settings, key, requested) == requested # NoValue

\* if self.X: if current_settings.get('X') != self.X
differs(current_settings, key, requested) ==
    requested # NoValue /\ get(current_settings, key) # requested

\* the place run_module goes on at, the test of power_reg_mode done or not
place_after(done, current_settings) ==
    IF done = "query"
       /\ differs(current_settings, "power_reg_mode", params.power_reg_mode)
    THEN "set_power_regulator"
    ELSE IF done \in { "query", "power_reg_mode" }
            /\ differs(current_settings, "auto_power", params.auto_power)
    THEN "set_auto_power"
    ELSE "return"

\* the run goes on after the command, or returns the result to main, which
\* hands it to exit_json
power_settings_goes_on(done, command, changed, current_settings) ==
    /\ issued' = Append(issued, Executed(command, "ok"))
    /\ locals' = [ssh |-> TRUE, changed |-> changed,
                  current_settings |-> current_settings]
    /\ IF place_after(done, current_settings) = "return"
       THEN /\ mpc' = "exited"
            /\ outcome' = exit_json([changed |-> changed,
                                     settings |-> current_settings])
       ELSE /\ mpc' = place_after(done, current_settings)
            /\ outcome' = outcome
    /\ UNCHANGED params

\* run_module() up to the first set command: the current settings are read
power_settings_run_module ==
    /\ mpc = "run_module"
    /\ \E end \in Ends(locals.ssh) :
          IF end = "unreachable" THEN unreachable
          ELSE IF end = "error"
          THEN failed_after(ShowPower, end, "Failed to get power settings")
          ELSE /\ power_settings_goes_on(
                      "query", ShowPower, FALSE,
                      read_settings(show_oemhp_power(device), 1, FALSE, << >>))
               /\ UNCHANGED device
    /\ UNCHANGED << parser, queries, concurrent >>

\* result['changed'] |= self.set_power_regulator();
\* current_settings['power_reg_mode'] = self.power_reg_mode
power_settings_set_power_regulator ==
    /\ mpc = "set_power_regulator"
    /\ \E end \in Ends(locals.ssh) :
          IF end = "error"
          THEN failed_after(SetPowerReg(params.power_reg_mode), end,
                            "Failed to set power regulator mode")
          ELSE /\ power_settings_goes_on(
                      "power_reg_mode", SetPowerReg(params.power_reg_mode), TRUE,
                      ("power_reg_mode" :> params.power_reg_mode)
                          @@ locals.current_settings)
               /\ device' = [device EXCEPT !.powerreg =
                                 spelled("power_reg_mode", params.power_reg_mode)]
    /\ UNCHANGED << parser, queries, concurrent >>

\* result['changed'] |= self.set_auto_power();
\* current_settings['auto_power'] = self.auto_power
power_settings_set_auto_power ==
    /\ mpc = "set_auto_power"
    /\ \E end \in Ends(locals.ssh) :
          IF end = "error"
          THEN failed_after(SetAutoPower(params.auto_power), end,
                            "Failed to set auto power settings")
          ELSE /\ power_settings_goes_on(
                      "auto_power", SetAutoPower(params.auto_power), TRUE,
                      ("auto_power" :> params.auto_power)
                          @@ locals.current_settings)
               /\ device' = [device EXCEPT !.auto_pwr =
                                 spelled("auto_power", params.auto_power)]
    /\ UNCHANGED << parser, queries, concurrent >>

PSNext ==
    \/ power_settings_run_module
    \/ power_settings_set_power_regulator
    \/ power_settings_set_auto_power

SpecPowerSettings == PSInit /\ [][PSNext]_vars

(***************************************************************************)
(* Properties of ilo_power_settings.                                       *)
(***************************************************************************)

SettingKeys == { "power_reg_mode", "auto_power" }

\* the setting that a spelling of the device stands for
SettingOf(spelling) ==
    CASE spelling \in { "dynamic", "Dynamic" } -> "dynamic"
      [] spelling \in { "os", "OS" } -> "os"
      [] spelling \in { "off", "Off" } -> "off"
      [] spelling = "On (30 Seconds)" -> "30"

\* the current value of a setting as the device reports it under the
\* header "Properties"; NoValue when it reports none
Reported(dev, key) ==
    IF dev.layout # "properties" THEN NoValue
    ELSE IF key = "power_reg_mode" THEN SettingOf(dev.powerreg)
    ELSE SettingOf(dev.auto_pwr)

\* the command that sets the setting to the value
SetCommand(key, v) ==
    IF key = "power_reg_mode" THEN SetPowerReg(v) ELSE SetAutoPower(v)

IsSetOf(e, key) == e.command[1] = SetCommand(key, NoValue)[1]

\* C23: a set command is issued for a setting only when the setting is
\* requested with a value that is not the current one; the result says
\* changed=True exactly when a set command was issued and succeeded; and
\* the settings returned are the requested value for every requested
\* setting and the current value for the others.
C23_SetsOnlyDifferences ==
    [][ /\ \A key \in SettingKeys :
              (issued' # issued /\ IsSetOf(issued'[Len(issued')], key))
              => /\ params[key] # NoValue
                 /\ Reported(device, key) # params[key]
                 /\ issued'[Len(issued')].command = SetCommand(key, params[key])
        /\ mpc' = "exited"
           => /\ outcome'.result.changed
                 = (\E i \in 1 .. Len(issued') : \E key \in SettingKeys :
                        IsSetOf(issued'[i], key) /\ issued'[i].success)
              /\ \A key \in SettingKeys :
                    LET returned == outcome'.result.settings
                    IN  IF params[key] # NoValue
                        THEN key \in DOMAIN returned /\ returned[key] = params[key]
                        ELSE IF Reported(device', key) = NoValue
                        THEN key \notin DOMAIN returned
                        ELSE key \in DOMAIN returned
                             /\ returned[key] = Reported(device', key) ]_vars

\* a run has returned changed=True having set one of the two settings it
\* was asked for, the other one being as requested already
C23_Witness ==
    /\ mpc = "exited"
    /\ params.power_reg_mode # NoValue /\ params.auto_power # NoValue
    /\ outcome.kind = "exit_json" /\ outcome.result.changed
    /\ Len(issued) = 2
    /\ IsSetOf(issued[2], "auto_power")
    /\ outcome.result.settings
       = [power_reg_mode |-> params.power_reg_mode, auto_power |-> params.auto_power]

(***************************************************************************)
(* ilo_power (plugins/modules/ilo_power.py).  The device holds the power   *)
(* state of the server; a power command that succeeds takes effect after   *)
(* a while (the module sleeps and polls for it).  The device prints the    *)
(* state in the sentence the module looks for, or, in another dialect, in  *)
(* words of its own.                                                       *)
(***************************************************************************)

\* the polls wait_for_power_state makes before its timeout runs out
MaxPowerPolls == 3

Power == << "power" >>
PowerOn == << "power on" >>
PowerOff(force) == IF force THEN << "power off hard" >> ELSE << "power off" >>
PowerReset == << "power reset" >>

\* what the device prints for "power"
show_power(dev) ==
    IF dev.dialect = "sentence"
    THEN IF dev.power = "on" THEN "power: server power is currently: On"
         ELSE "power: server power is currently: Off"
    ELSE IF dev.power = "on" THEN "Power State: On" ELSE "Power State: Off"

\* the tests of get_power_state on stdout.lower(): "off", "on", or NoValue
\* when neither sentence is in the output
power_state_in(stdout) ==
    CASE stdout = "power: server power is currently: Off" -> "off"
      [] stdout = "power: server power is currently: On" -> "on"
      [] OTHER -> NoValue

\* get_power_state(), executed with the end given: the state read, or the
\* fail_json that ends the run
get_power_state(end) ==
    IF end # "ok" THEN fail_json("Failed to get power state")
    ELSE IF power_state_in(show_power(device)) = NoValue
    THEN fail_json("Failed to parse power state from output")
    ELSE [kind |-> "power_state", state |-> power_state_in(show_power(device))]

PowerParams ==
    { [state |-> s, force |-> f] :
        s \in { "get", "on", "off", "reset", "cold_boot" }, f \in BOOLEAN }

PInit ==
    /\ NoParserCall
    /\ params \in PowerParams
    /\ device \in { [power |-> p, pending |-> q, dialect |-> d] :
                      p \in { "on", "off" }, q \in { "none", "on", "off" },
                      d \in { "sentence", "other" } }
    /\ mpc = "run_module"
    /\ locals = [ssh |-> FALSE, polls |-> 0,
                 result |-> [changed |-> FALSE, power_state |-> NoValue]]
    /\ issued = << >>
    /\ outcome = None

\* the device carries out the last power command it accepted
device_settles ==
    /\ mpc \notin { "exited", "failed" }
    /\ device.pending # "none"
    /\ device' = [device EXCEPT !.power = device.pending, !.pending = "none"]
    /\ UNCHANGED << params, mpc, locals, issued, outcome >>
    /\ UNCHANGED << parser, queries, concurrent >>

\* the run goes on at the place given, the command having succeeded
power_goes_on(place, command, res) ==
    /\ mpc' = place
    /\ locals' = [locals EXCEPT !.ssh = TRUE, !.result = res]
    /\ issued' = Append(issued, Executed(command, "ok"))
    /\ UNCHANGED << params, outcome >>

\* the run returns the result to main, which hands it to exit_json
power_exits(command, res) ==
    /\ mpc' = "exited"
    /\ outcome' = exit_json(res)
    /\ locals' = [locals EXCEPT !.ssh = TRUE, !.result = res]
    /\ issued' = Append(issued, Executed(command, "ok"))
    /\ UNCHANGED params

\* the place run_module goes to for the state asked for, the current state
\* being the one given; "return" when nothing is to be done
power_branch(current_state) ==
    IF params.state = "on" /\ current_state # "on" THEN "power_on"
    ELSE IF params.state = "off" /\ current_state # "off" THEN "power_off"
    ELSE IF params.state = "reset" THEN "reset"
    ELSE IF params.state = "cold_boot" THEN "cold_boot"
    ELSE "return"

\* run_module() up to the branch on the state asked for
power_run_module ==
    /\ mpc = "run_module"
    /\ \E end \in Ends(locals.ssh) :
          IF end = "unreachable" THEN unreachable
          ELSE IF get_power_state(end).kind = "fail_json"
          THEN failed_after(Power, end, get_power_state(end).msg)
          ELSE IF power_branch(get_power_state(end).state) = "return"
          THEN power_exits(Power, [changed |-> FALSE,
                                   power_state |-> get_power_state(end).state])
          ELSE power_goes_on(power_branch(get_power_state(end).state), Power,
                             [changed |-> FALSE,
                              power_state |-> get_power_state(end).state])
    /\ UNCHANGED device
    /\ UNCHANGED << parser, queries, concurrent >>

\* power_on() and power_off() up to their command: the state is read once
\* more; when it is the one asked for, they return False and run_module
\* goes on to wait for the state
power_on_off ==
    /\ mpc \in { "power_on", "power_off" }
    /\ \E end \in Ends(locals.ssh) :
          IF get_power_state(end).kind = "fail_json"
          THEN failed_after(Power, end, get_power_state(end).msg)
          ELSE IF get_power_state(end).state = params.state
          THEN power_goes_on("wait", Power, locals.result)
          ELSE power_goes_on("command", Power, locals.result)
    /\ UNCHANGED device
    /\ UNCHANGED << parser, queries, concurrent >>

\* the command of power_on() or power_off(): a failure is reported, a
\* success makes them return True
power_command ==
    /\ mpc = "command"
    /\ LET command == IF params.state = "on" THEN PowerOn
                      ELSE PowerOff(params.force)
       IN  \E end \in Ends(locals.ssh) :
              IF end = "error"
              THEN /\ failed_after(command, end,
                                   IF params.state = "on"
                                   THEN "Failed to power on server"
                                   ELSE "Failed to power off server")
                   /\ UNCHANGED device
              ELSE /\ power_goes_on("wait", command,
                                    [locals.result EXCEPT !.changed = TRUE])
                   /\ device' = [device EXCEPT !.pending = params.state]
    /\ UNCHANGED << parser, queries, concurrent >>

\* reset(): the command "power reset"; run_module returns without waiting
power_reset ==
    /\ mpc = "reset"
    /\ \E end \in Ends(locals.ssh) :
          IF end = "error"
          THEN failed_after(PowerReset, end, "Failed to reset server")
          ELSE power_exits(PowerReset, [changed |-> TRUE,
                                        power_state |-> "reset_initiated"])
    /\ UNCHANGED device
    /\ UNCHANGED << parser, queries, concurrent >>

\* a variant of the first half of cold_boot() that goes on to the second
\* command whatever the end of the first
power_cold_boot_off_regardless ==
    /\ mpc = "cold_boot"
    /\ \E end \in Ends(locals.ssh) :
          /\ mpc' = "cold_boot_on"
          /\ locals' = [locals EXCEPT !.ssh = TRUE]
          /\ issued' = Append(issued, Executed(PowerOff(TRUE), end))
          /\ device' = IF end = "ok" THEN [device EXCEPT !.pending = "off"]
                       ELSE device
          /\ UNCHANGED << params, outcome >>
    /\ UNCHANGED << parser, queries, concurrent >>

\* the first half of cold_boot(): "power off hard"; a failure is reported
power_cold_boot_off ==
    /\ mpc = "cold_boot"
    /\ \E end \in Ends(locals.ssh) :
          IF end = "error"
          THEN /\ failed_after(PowerOff(TRUE), end,
                               "Failed to power off server for cold boot")
               /\ UNCHANGED device
          ELSE /\ power_goes_on("cold_boot_on", PowerOff(TRUE), locals.result)
               /\ device' = [device EXCEPT !.pending = "off"]
    /\ UNCHANGED << parser, queries, concurrent >>

\* the second half of cold_boot(): "power on"; a failure is reported, a
\* success makes cold_boot() return True
power_cold_boot_on ==
    /\ mpc = "cold_boot_on"
    /\ \E end \in Ends(locals.ssh) :
          IF end = "error"
          THEN /\ failed_after(PowerOn, end,
                               "Failed to power on server after cold boot")
               /\ UNCHANGED device
          ELSE /\ power_goes_on("wait", PowerOn,
                                [locals.result EXCEPT !.changed = TRUE])
               /\ device' = [device EXCEPT !.pending = "on"]
    /\ UNCHANGED << parser, queries, concurrent >>

\* the state wait_for_power_state waits for
target_state == IF params.state = "off" THEN "off" ELSE "on"

\* one pass of the loop of wait_for_power_state: the state is read; when it
\* is the target, run_module returns the result with it; when the time is
\* out, the exception raised is reported by run_module through fail_json
power_wait ==
    /\ mpc = "wait"
    /\ \E end \in Ends(locals.ssh) :
          IF get_power_state(end).kind = "fail_json"
          THEN failed_after(Power, end, get_power_state(end).msg)
          ELSE IF get_power_state(end).state = target_state
          THEN power_exits(Power, [locals.result EXCEPT
                                      !.power_state = target_state])
          ELSE IF locals.polls + 1 >= MaxPowerPolls
          THEN failed_after(Power, end, "Timeout waiting for power state")
          ELSE /\ mpc' = "wait"
               /\ locals' = [locals EXCEPT !.polls = @ + 1]
               /\ issued' = Append(issued, Executed(Power, "ok"))
               /\ UNCHANGED << params, outcome >>
    /\ UNCHANGED device
    /\ UNCHANGED << parser, queries, concurrent >>

PNext ==
    \/ power_run_module
    \/ power_on_off
    \/ power_command
    \/ power_reset
    \/ power_cold_boot_off
    \/ power_cold_boot_on
    \/ power_wait
    \/ device_settles

SpecPower == PInit /\ [][PNext]_vars

(***************************************************************************)
(* Properties of ilo_power                                                 *)
(***************************************************************************)

\* the positions in the log of the commands executed where the command is
\* the one given
IssuedAt(command) == { i \in 1 .. Len(issued) : issued[i].command = command }

C27_WitnessFailure ==
    /\ mpc = "failed"
    /\ params.state = "cold_boot"
    /\ \E i \in IssuedAt(PowerOn) : ~ issued[i].success

(***************************************************************************)
(* ilo_virtual_media (plugins/modules/ilo_virtual_media.py).  The device   *)
(* holds the image of the virtual CD-ROM, whether it is connected, and the *)
(* boot option.  A command that the device accepts takes effect after a    *)
(* while (the module polls the status for it); a run can meet a device     *)
(* that is still carrying out the commands of an earlier run.              *)
(***************************************************************************)

\* the texts of image_url that runs are made with: two that the pattern of
\* validate_url takes, one with another protocol, one without a host, and
\* the empty text
Url1 == << "h", "t", "t", "p", ":", "/", "/", "a", "/", "1" >>
Url2 == << "n", "f", "s", ":", "/", "/", "a", "/", "2" >>
UrlFtp == << "f", "t", "p", ":", "/", "/", "a", "/", "1" >>
UrlBare == << "h", "t", "t", "p", "s", ":", "/", "/" >>
ImageUrls == { Url1, UrlFtp, UrlBare, << >> }

\* re.match(r'^(http|https|nfs)://[^\s/$.?#].[^\s]*$', url) for a text
\* without whitespace
url_pattern_matches(url) ==
    \E scheme \in { << "h", "t", "t", "p" >>, << "h", "t", "t", "p", "s" >>,
                    << "n", "f", "s" >> } :
        LET n == Len(scheme) + 3
        IN  /\ StartsWith(url, scheme \o << ":", "/", "/" >>)
            /\ Len(url) >= n + 2
            /\ url[n + 1] \notin { "/", "$", ".", "?", "#" }

\* validate_url(): TRUE when it returns, FALSE when it calls fail_json
validate_url(url) == url = << >> \/ url_pattern_matches(url)

VmGet == << "vm cdrom get" >>
VmInsert(url) == << "vm cdrom insert ", url >>
VmSet(word) == << "vm cdrom set ", word >>
VmEject == << "vm cdrom eject" >>

\* what the device holds when nothing is mounted
Cleared == [image |-> NoText, connected |-> FALSE, boot |-> "NO_BOOT"]

\* what the device holds, its commands carried out
Held(dev) == [image |-> dev.image, connected |-> dev.connected, boot |-> dev.boot]

\* what the device will hold when the commands it accepted are carried out
Ahead(dev) == IF dev.pending = None THEN Held(dev) ELSE dev.pending

\* the device has accepted the change given
accepted(dev, change) == [dev EXCEPT !.pending = change]

\* the values the device prints for "vm cdrom get"
vm_get(dev) ==
    [image_url |-> IF dev.image = NoText THEN << "N", "o", "n", "e" >>
                   ELSE dev.image,
     connected |-> IF dev.connected THEN "Yes" ELSE "No",
     boot |-> dev.boot]

\* value.lower() of the words the device prints
value_lower(value) ==
    CASE value = "Yes" -> "yes"
      [] value = "No" -> "no"
      [] value = "NO_BOOT" -> "no_boot"
      [] value = "BOOT_ONCE" -> "boot_once"
      [] value = "BOOT_ALWAYS" -> "boot_always"
      [] OTHER -> value

\* value.lower() of a text of the letters that the texts here are made of
text_lower(text) ==
    [i \in 1 .. Len(text) |-> IF text[i] = "N" THEN "n" ELSE text[i]]

\* the status get_virtual_media_status builds from the output
status_of(out) ==
    [image_url |-> IF text_lower(out.image_url) # << "n", "o", "n", "e" >>
                   THEN out.image_url ELSE NoText,
     connected |-> value_lower(out.connected) = "yes",
     boot_on_next_reset |->
         value_lower(out.boot) \in { "boot_once", "boot_always" }]

\* no status was read
NoStatus == [image_url |-> NoText, connected |-> FALSE,
             boot_on_next_reset |-> FALSE, read |-> FALSE]

\* the status was read
AsRead(status) ==
    [image_url |-> status.image_url, connected |-> status.connected,
     boot_on_next_reset |-> status.boot_on_next_reset, read |-> TRUE]

\* the truth of a text in Python: None and the empty text are false
truthy(text) == text # NoText /\ text # << >>

\* the status is the one asked for (lines 208-210 and 254-256)
mounted_as_asked(status) ==
    /\ status.image_url = params.image_url
    /\ status.connected
    /\ status.boot_on_next_reset = params.boot_on_next_reset

\* nothing is mounted (lines 272-274 and 305)
unmounted(status) ==
    /\ ~ status.connected
    /\ ~ truthy(status.image_url)
    /\ ~ status.boot_on_next_reset

VirtualMediaParams ==
    { [state |-> s, image_url |-> u, boot_on_next_reset |-> b] :
        s \in { "get", "present", "absent" }, u \in ImageUrls, b \in BOOLEAN }

VMInit ==
    /\ NoParserCall
    /\ params \in VirtualMediaParams
    /\ device \in { [image |-> i, connected |-> c, boot |-> b, pending |-> p] :
                      i \in { NoText, Url1, Url2 }, c \in BOOLEAN,
                      b \in { "NO_BOOT", "BOOT_ONCE", "BOOT_ALWAYS" },
                      p \in { None, Cleared } }
    /\ mpc = "run_module"
    /\ locals = [ssh |-> FALSE, caller |-> "run_module", changed |-> FALSE,
                 mount_status |-> NoStatus, unmount_status |-> NoStatus,
                 retries |-> 0]
    /\ issued = << >>
    /\ outcome = None

\* the device carries out the commands it accepted
vm_device_settles ==
    /\ mpc \notin { "exited", "failed" }
    /\ device.pending # None
    /\ device' = [image |-> device.pending.image,
                  connected |-> device.pending.connected,
                  boot |-> device.pending.boot, pending |-> None]
    /\ UNCHANGED << params, mpc, locals, issued, outcome >>
    /\ UNCHANGED << parser, queries, concurrent >>

\* how a command of the module can end besides the ends of execute_command:
\* "refused", exit status 0 and no 'status=0' in the output
VmEnds == { "ok", "error", "refused" }

\* the run goes on at the place given with the locals given
vm_goes_on(place, command, end, loc) ==
    /\ mpc' = place
    /\ locals' = [loc EXCEPT !.ssh = TRUE]
    /\ issued' = Append(issued, Executed(command, end))
    /\ UNCHANGED << params, outcome >>

\* get_virtual_media_status(), executed with the end given: the status
\* read from the device
current_status == status_of(vm_get(device))

\* run_module() up to the call of mount_virtual_media() or
\* unmount_virtual_media(); for state get it ends with exit_json
vm_run_module ==
    /\ mpc = "run_module"
    /\ \E end \in Ends(locals.ssh) :
          IF end = "unreachable" THEN unreachable
          ELSE IF end = "error"
          THEN failed_after(VmGet, end, "Failed to get virtual media status")
          ELSE IF params.state = "get"
          THEN /\ mpc' = "exited"
               /\ outcome' = exit_json([changed |-> FALSE,
                                        status |-> current_status])
               /\ locals' = [locals EXCEPT !.ssh = TRUE]
               /\ issued' = Append(issued, Executed(VmGet, end))
               /\ UNCHANGED params
          ELSE vm_goes_on(IF params.state = "present" THEN "mount"
                          ELSE "unmount", VmGet, end, locals)
    /\ UNCHANGED device
    /\ UNCHANGED << parser, queries, concurrent >>

\* mount_virtual_media() up to the first command after the status: the url
\* is validated, the status is read; mounted as asked, it returns False;
\* an image or a connection there, it calls unmount_virtual_media()
vm_mount ==
    /\ mpc = "mount"
    /\ IF ~ validate_url(params.image_url)
       THEN /\ mpc' = "failed"
            /\ outcome' = fail_json("Invalid URL format")
            /\ UNCHANGED << params, locals, issued >>
       ELSE \E end \in Ends(locals.ssh) :
              IF end = "error"
              THEN failed_after(VmGet, end, "Failed to get virtual media status")
              ELSE vm_goes_on(
                     IF mounted_as_asked(current_status) THEN "final"
                     ELSE IF truthy(current_status.image_url)
                             \/ current_status.connected
                     THEN "unmount" ELSE "insert",
                     VmGet, end,
                     [locals EXCEPT !.caller = "mount", !.changed = FALSE,
                                    !.mount_status = AsRead(current_status)])
    /\ UNCHANGED device
    /\ UNCHANGED << parser, queries, concurrent >>

\* the place a run goes on at when unmount_virtual_media() returns
after_unmount == IF locals.caller = "mount" THEN "insert" ELSE "final"

\* unmount_virtual_media() up to the first command after the status:
\* nothing mounted, it returns False
vm_unmount ==
    /\ mpc = "unmount"
    /\ \E end \in Ends(locals.ssh) :
          IF end = "error"
          THEN failed_after(VmGet, end, "Failed to get virtual media status")
          ELSE vm_goes_on(IF unmounted(current_status) THEN after_unmount
                          ELSE "no_boot", VmGet, end,
                          [locals EXCEPT !.changed = FALSE,
                                 !.unmount_status = AsRead(current_status)])
    /\ UNCHANGED device
    /\ UNCHANGED << parser, queries, concurrent >>

\* 'set no_boot' of unmount_virtual_media() (lines 278-282)
vm_no_boot ==
    /\ mpc = "no_boot"
    /\ \E end \in VmEnds :
          IF end # "ok"
          THEN /\ failed_after(VmSet("no_boot"), end,
                               "Failed to disable boot option")
               /\ UNCHANGED device
          ELSE /\ vm_goes_on("disconnect", VmSet("no_boot"), end, locals)
               /\ device' = accepted(device,
                                [Ahead(device) EXCEPT !.boot = "NO_BOOT"])
    /\ UNCHANGED << parser, queries, concurrent >>

\* a variant of 'set disconnect' after which the eject is never issued
vm_disconnect_without_eject ==
    /\ mpc = "disconnect"
    /\ \E end \in VmEnds :
          IF end # "ok"
          THEN /\ failed_after(VmSet("disconnect"), end,
                               "Failed to disconnect device")
               /\ UNCHANGED device
          ELSE /\ vm_goes_on("unmount_poll", VmSet("disconnect"), end,
                             [locals EXCEPT !.retries = 10])
               /\ device' = accepted(device,
                                [Ahead(device) EXCEPT !.connected = FALSE])
    /\ UNCHANGED << parser, queries, concurrent >>

\* 'set disconnect' of unmount_virtual_media() (lines 285-289); the eject
\* follows when the status read at the start showed an image
vm_disconnect ==
    /\ mpc = "disconnect"
    /\ \E end \in VmEnds :
          IF end # "ok"
          THEN /\ failed_after(VmSet("disconnect"), end,
                               "Failed to disconnect device")
               /\ UNCHANGED device
          ELSE /\ vm_goes_on(IF truthy(locals.unmount_status.image_url)
                             THEN "eject" ELSE "unmount_poll",
                             VmSet("disconnect"), end,
                             [locals EXCEPT !.retries = 10])
               /\ device' = accepted(device,
                                [Ahead(device) EXCEPT !.connected = FALSE])
    /\ UNCHANGED << parser, queries, concurrent >>

\* 'eject' of unmount_virtual_media() (lines 292-299): a failure that says
\* 'No image present' is passed over
vm_eject ==
    /\ mpc = "eject"
    /\ \E end \in VmEnds \cup (IF Ahead(device).image = NoText
                               THEN { "no_image" } ELSE { }) :
          IF end \in { "error", "refused" }
          THEN /\ failed_after(VmEject, end, "Failed to eject virtual media")
               /\ UNCHANGED device
          ELSE /\ vm_goes_on("unmount_poll", VmEject, end, locals)
               /\ device' = IF end = "ok"
                            THEN accepted(device,
                                     [Ahead(device) EXCEPT !.image = NoText])
                            ELSE device
    /\ UNCHANGED << parser, queries, concurrent >>

\* one pass of a loop 'while retries > 0' (lines 252-259 and 303-308), the
\* status read being the one waited for or not: the run goes on at the
\* place given, stays in the loop, or, retries at 0, ends with fail_json
vm_poll(reached, place, msg) ==
    \E end \in Ends(locals.ssh) :
        IF end = "error"
        THEN failed_after(VmGet, end, "Failed to get virtual media status")
        ELSE IF reached
        THEN vm_goes_on(place, VmGet, end, [locals EXCEPT !.changed = TRUE])
        ELSE IF locals.retries - 1 = 0
        THEN failed_after(VmGet, end, msg)
        ELSE vm_goes_on(mpc, VmGet, end, [locals EXCEPT !.retries = @ - 1])

\* the loop at the end of unmount_virtual_media()
vm_unmount_poll ==
    /\ mpc = "unmount_poll"
    /\ vm_poll(unmounted(current_status), after_unmount,
               "Failed to unmount virtual media")
    /\ UNCHANGED device
    /\ UNCHANGED << parser, queries, concurrent >>

\* a command of mount_virtual_media() and its test (lines 219-248)
vm_mount_command(command, change, place, msg) ==
    \E end \in VmEnds :
        IF end # "ok"
        THEN /\ failed_after(command, end, msg)
             /\ UNCHANGED device
        ELSE /\ vm_goes_on(place, command, end, [locals EXCEPT !.retries = 10])
             /\ device' = accepted(device, change)

\* 'insert' of mount_virtual_media()
vm_insert ==
    /\ mpc = "insert"
    /\ vm_mount_command(VmInsert(params.image_url),
                        [Ahead(device) EXCEPT !.image = params.image_url],
                        "connect", "Failed to insert virtual media image")
    /\ UNCHANGED << parser, queries, concurrent >>

\* 'set connect' of mount_virtual_media()
vm_connect ==
    /\ mpc = "connect"
    /\ vm_mount_command(VmSet("connect"),
                        [Ahead(device) EXCEPT !.connected = TRUE],
                        IF params.boot_on_next_reset THEN "boot_once"
                        ELSE "mount_poll", "Failed to connect device")
    /\ UNCHANGED << parser, queries, concurrent >>

\* 'set boot_once' of mount_virtual_media()
vm_boot_once ==
    /\ mpc = "boot_once"
    /\ vm_mount_command(VmSet("boot_once"),
                        [Ahead(device) EXCEPT !.boot = "BOOT_ONCE"],
                        "mount_poll", "Failed to set boot option")
    /\ UNCHANGED << parser, queries, concurrent >>

\* the loop at the end of mount_virtual_media()
vm_mount_poll ==
    /\ mpc = "mount_poll"
    /\ vm_poll(mounted_as_asked(current_status), "final",
               "Image URL is not accessible")
    /\ UNCHANGED device
    /\ UNCHANGED << parser, queries, concurrent >>

\* the end of run_module(): the status is read once more and the result is
\* handed to exit_json
vm_final ==
    /\ mpc = "final"
    /\ \E end \in Ends(locals.ssh) :
          IF end = "error"
          THEN failed_after(VmGet, end, "Failed to get virtual media status")
          ELSE /\ mpc' = "exited"
               /\ outcome' = exit_json([changed |-> locals.changed,
                                        status |-> current_status])
               /\ issued' = Append(issued, Executed(VmGet, end))
               /\ UNCHANGED << params, locals >>
    /\ UNCHANGED device
    /\ UNCHANGED << parser, queries, concurrent >>

VMNext ==
    \/ vm_run_module
    \/ vm_mount
    \/ vm_unmount
    \/ vm_no_boot
    \/ vm_disconnect
    \/ vm_eject
    \/ vm_unmount_poll
    \/ vm_insert
    \/ vm_connect
    \/ vm_boot_once
    \/ vm_mount_poll
    \/ vm_final
    \/ vm_device_settles

SpecVirtualMedia == VMInit /\ [][VMNext]_vars

(***************************************************************************)
(* Properties of ilo_virtual_media                                         *)
(***************************************************************************)

\* the commands of the log given, the status queries left out
CommandsBesidesGet(log) ==
    LET besides == SelectSeq(log, LAMBDA e : e.command # VmGet)
    IN  [i \in 1 .. Len(besides) |-> besides[i].command]

\* the number of status queries at the end of the log given
TrailingGets(log) ==
    Cardinality({ i \in 1 .. Len(log) :
                    \A j \in i .. Len(log) : log[j].command = VmGet })

\* the commands of unmount_virtual_media() for a status, and those of
\* mount_virtual_media() for the parameters of the run
UnmountSequence(status) ==
    << VmSet("no_boot"), VmSet("disconnect") >>
    \o (IF truthy(status.image_url) THEN << VmEject >> ELSE << >>)
MountSequence ==
    << VmInsert(params.image_url), VmSet("connect") >>
    \o (IF params.boot_on_next_reset THEN << VmSet("boot_once") >> ELSE << >>)

\* the log after the queries of run_module() and mount_virtual_media()
SinceMount == SubSeq(issued, 3, Len(issued))

\* a run for state present in which mount_virtual_media() has read the status
Mounting == params.state = "present" /\ locals.mount_status.read

\* what is common to the statement of C28 and its amended form: mounted as
\* asked, the run issues nothing but the last status query and reports no
\* change; nothing to unmount, only the commands of the mount are issued;
\* a command that fails is the last of the run, which ends with fail_json;
\* the polls of a loop are 10 at most; a run that issued a command and
\* returns reports a change
MountInOrder ==
    Mounting =>
        /\ mounted_as_asked(locals.mount_status) =>
              /\ CommandsBesidesGet(SinceMount) = << >>
              /\ Len(issued) <= 3
              /\ mpc = "exited" => ~ outcome.result.changed
        /\ ( /\ ~ mounted_as_asked(locals.mount_status)
             /\ ~ truthy(locals.mount_status.image_url)
             /\ ~ locals.mount_status.connected ) =>
              IsPrefix(CommandsBesidesGet(SinceMount), MountSequence)
        /\ \A i \in 1 .. Len(issued) :
              (~ issued[i].success /\ issued[i].command # VmEject) =>
                  /\ i = Len(issued)
                  /\ mpc = "failed"
                  /\ outcome.kind = "fail_json"
        /\ mpc \in { "mount_poll", "unmount_poll" } => TrailingGets(issued) < 10
        /\ TrailingGets(SinceMount) <= 11
        /\ (mpc = "exited" /\ CommandsBesidesGet(SinceMount) # << >>) =>
              /\ outcome.result.changed
              /\ EndsWith(CommandsBesidesGet(SinceMount), MountSequence)

\* a pass of the loop at the end of mount_virtual_media(): the status
\* asked for ends the loop; the tenth pass without it ends the run with
\* fail_json
MountPolls ==
    (Mounting /\ mpc = "mount_poll" /\ Len(issued') > Len(issued)
     /\ issued'[Len(issued')].success) =>
        IF mounted_as_asked(current_status) THEN mpc' = "final"
        ELSE IF TrailingGets(issued') = 10
        THEN mpc' = "failed" /\ outcome'.kind = "fail_json"
        ELSE mpc' = "mount_poll"

\* an image or a connection in the status read by mount_virtual_media()
\* (line 214)
MustUnmount ==
    /\ Mounting
    /\ ~ mounted_as_asked(locals.mount_status)
    /\ truthy(locals.mount_status.image_url) \/ locals.mount_status.connected

\* C28: mount_virtual_media(), the status mounted as asked, issues nothing
\* and returns False.  Otherwise, an image or a connection in the status,
\* it calls unmount_virtual_media(), which reads the status again: when
\* that status shows nothing mounted, no command of the unmount is issued;
\* else 'set no_boot', 'set disconnect' and, an image in that status,
\* 'eject' are issued in this order before 'insert'.  'insert', 'set
\* connect' and, when asked for, 'set boot_once' follow in this order, each
\* after the one before succeeded, then 10 status polls at most; the run
\* fails when none of them shows the status asked for.
C28_MountSequence ==
    /\ [](MountInOrder
          /\ (MustUnmount =>
                /\ Len(issued) >= 3 => issued[3].command = VmGet
                /\ IF locals.unmount_status.read
                   THEN IsPrefix(CommandsBesidesGet(SinceMount),
                                 (IF unmounted(locals.unmount_status) THEN << >>
                                  ELSE UnmountSequence(locals.unmount_status))
                                 \o MountSequence)
                   ELSE CommandsBesidesGet(SinceMount) = << >>))
    /\ [][MountPolls]_vars

\* an image other than the one asked for was unmounted with the three
\* commands, the image asked for was mounted with the three commands, and
\* the status asked for showed at the third poll
C28_Witness ==
    /\ MustUnmount
    /\ mpc = "exited"
    /\ outcome.result.changed
    /\ CommandsBesidesGet(SinceMount)
           = UnmountSequence(locals.mount_status) \o MountSequence
    /\ Len(UnmountSequence(locals.mount_status)) = 3
    /\ Len(MountSequence) = 3
    /\ TrailingGets(issued) = 4

\* the statement of C28 as written: an image or a connection in the status
\* read by mount_virtual_media(), the commands of the unmount for that
\* status are issued before 'insert'
C28_AsStated ==
    /\ [](MountInOrder
          /\ (MustUnmount =>
                IsPrefix(CommandsBesidesGet(SinceMount),
                         UnmountSequence(locals.mount_status) \o MountSequence)))
    /\ [][MountPolls]_vars

====
